---- MODULE Spec2Model ----
(***************************************************************************)
(* A model of the MT station container of mtpy (mtpy/core/mt.py): the      *)
(* rotation_angle setter and the frequency interpolation of the impedance  *)
(* tensor Z and the Tipper.                                                *)
(*                                                                         *)
(* Numbers.  Impedance and tipper samples are complex numbers <<re, im>>   *)
(* with integer parts; errors are naturals; frequencies are positive       *)
(* integers (Hz).  Interpolated values are exact rationals <<num, den>> in *)
(* lowest terms.  Angles are degrees, restricted to multiples of 90 so     *)
(* that cos and sin are integers and rotation is exact.                    *)
(*                                                                         *)
(* Python's 0-based component indices ii, jj are kept; frequency indices   *)
(* are 1-based sequence positions.                                         *)
(***************************************************************************)
EXTENDS Integers, Sequences, FiniteSets, TLC

VARIABLES
    mt,      \* the MT object: [Z, Tipper, rotation_angle]
    orig,    \* history: Z and Tipper as they were read from the file
    thetas,  \* history: the angles assigned to rotation_angle, in order
    last,    \* the last call made on the object and what it returned or raised
    loc,     \* the location of the MT object: [latitude, longitude, east, north,
             \* utm_zone], each <<>> for None or <<value>>
    fs       \* the directory the MT object writes to (save_dir) and the files
             \* written: [save_dir, files]

vars == <<mt, orig, thetas, last, loc, fs>>

None == "None"

\* ------------------------------------------------------------------ bounds

\* at most this many of the 6 components (4 of Z, 2 of Tipper) have gaps
MaxGapComps == 1
\* a new_freq_array has 1..MaxTargets entries
MaxTargets == 2
\* at most this many assignments to rotation_angle in one behaviour
MaxRotations == 2

\* ------------------------------------------------------------- arithmetic

Abs(n) == IF n < 0 THEN -n ELSE n

Min(S) == CHOOSE x \in S : \A y \in S : x <= y
Max(S) == CHOOSE x \in S : \A y \in S : x >= y

RECURSIVE GCD(_, _)
GCD(a, b) == IF b = 0 THEN a ELSE GCD(b, a % b)

\* the rational n/d (d > 0) in lowest terms
Rat(n, d) ==
    LET g == GCD(Abs(n), d)
    IN  <<n \div g, d \div g>>

RECURSIVE SumSeq(_)
SumSeq(s) == IF s = <<>> THEN 0 ELSE Head(s) + SumSeq(Tail(s))

\* a finite set of integers as an ascending sequence
RECURSIVE AscSeq(_)
AscSeq(S) == IF S = {} THEN <<>> ELSE <<Min(S)>> \o AscSeq(S \ {Min(S)})

Range(s) == {s[k] : k \in DOMAIN s}

\* ---------------------------------------------------------------- the data

ZComps == {<<0, 0>>, <<0, 1>>, <<1, 0>>, <<1, 1>>}
TComps == {0, 1}

\* the frequencies of a file, highest first (the order of an EDI file)
FileFreq == <<1000, 100, 10>>
NFreq == Len(FileFreq)

\* the samples of a file without gaps
FullZ ==
    << (<<0,0>> :> <<1, -1>>  @@ <<0,1>> :> <<5, 3>>   @@ <<1,0>> :> <<-4, -5>>  @@ <<1,1>> :> <<-10, 20>>),
       (<<0,0>> :> <<2, 0>>   @@ <<0,1>> :> <<9, 6>>   @@ <<1,0>> :> <<-8, -8>>  @@ <<1,1>> :> <<3, 1>>),
       (<<0,0>> :> <<3, 1>>   @@ <<0,1>> :> <<13, 9>>  @@ <<1,0>> :> <<-12, -11>> @@ <<1,1>> :> <<1, -2>>) >>

FullZErr ==
    << (<<0,0>> :> 1 @@ <<0,1>> :> 2 @@ <<1,0>> :> 3 @@ <<1,1>> :> 4),
       (<<0,0>> :> 2 @@ <<0,1>> :> 4 @@ <<1,0>> :> 6 @@ <<1,1>> :> 2),
       (<<0,0>> :> 3 @@ <<0,1>> :> 5 @@ <<1,0>> :> 4 @@ <<1,1>> :> 7) >>

FullT ==
    << (0 :> <<1, -1>> @@ 1 :> <<-1, 1>>),
       (0 :> <<2, 1>>  @@ 1 :> <<-3, 2>>),
       (0 :> <<3, 3>>  @@ 1 :> <<-5, 3>>) >>

FullTErr ==
    << (0 :> 1 @@ 1 :> 2),
       (0 :> 2 @@ 1 :> 3),
       (0 :> 4 @@ 1 :> 1) >>

\* a longer file, without gaps
LongFileFreq == <<10000, 1000, 100, 10, 1>>

LongFileZ ==
    [ z     |-> [k \in DOMAIN LongFileFreq |->
                  [c \in ZComps |-> <<k + 2 * c[1] + c[2], k * k - 7 * c[2]>>]],
      z_err |-> [k \in DOMAIN LongFileFreq |-> [c \in ZComps |-> k + c[2] + 1]],
      freq  |-> LongFileFreq,
      rotation_angle |-> 0 ]

LongFileTipper ==
    [ tipper     |-> [k \in DOMAIN LongFileFreq |-> [j \in TComps |-> <<k + j, j - 2 * k>>]],
      tipper_err |-> [k \in DOMAIN LongFileFreq |-> [j \in TComps |-> k + j]],
      freq  |-> LongFileFreq,
      rotation_angle |-> 0 ]

\* MTz.Z() and MTz.Tipper(), lines 125-126: objects without arrays; <<>> is
\* the None of their z and tipper
EmptyZ == [z |-> <<>>, z_err |-> <<>>, freq |-> <<>>, rotation_angle |-> 0]
EmptyTipper ==
    [tipper |-> <<>>, tipper_err |-> <<>>, freq |-> <<>>, rotation_angle |-> 0]

\* the Tipper of a file that holds the tipper as zeros at every frequency
ZeroTipper ==
    [ tipper     |-> [k \in DOMAIN FileFreq |-> [j \in TComps |-> <<0, 0>>]],
      tipper_err |-> [k \in DOMAIN FileFreq |-> [j \in TComps |-> 0]],
      freq  |-> FileFreq,
      rotation_angle |-> 0 ]

\* a component of the file: of Z or of the Tipper
AllComps == ({"Z"} \X ZComps) \cup ({"T"} \X TComps)

\* gaps: for some components, the frequency indices at which the file holds
\* no data for the component; a gap is stored as 0 (value and error)
GapChoices ==
    UNION { [G -> (SUBSET (1..NFreq)) \ {{}}] :
              G \in {g \in SUBSET AllComps : Cardinality(g) <= MaxGapComps} }

IsGap(gaps, kind, c, k) ==
    <<kind, c>> \in DOMAIN gaps /\ k \in gaps[<<kind, c>>]

\* mtpy.core.z.Z as the file reader leaves it
FileZ(gaps) ==
    [ z     |-> [k \in 1..NFreq |->
                  [c \in ZComps |-> IF IsGap(gaps, "Z", c, k) THEN <<0, 0>> ELSE FullZ[k][c]]],
      z_err |-> [k \in 1..NFreq |->
                  [c \in ZComps |-> IF IsGap(gaps, "Z", c, k) THEN 0 ELSE FullZErr[k][c]]],
      freq  |-> FileFreq,
      rotation_angle |-> 0 ]

\* mtpy.core.z.Tipper as the file reader leaves it
FileTipper(gaps) ==
    [ tipper     |-> [k \in 1..NFreq |->
                       [j \in TComps |-> IF IsGap(gaps, "T", j, k) THEN <<0, 0>> ELSE FullT[k][j]]],
      tipper_err |-> [k \in 1..NFreq |->
                       [j \in TComps |-> IF IsGap(gaps, "T", j, k) THEN 0 ELSE FullTErr[k][j]]],
      freq  |-> FileFreq,
      rotation_angle |-> 0 ]

\* ---------------------------------------------------------------- rotation

Angles == {0, 90, 180, 270}

Cos(a) == CASE a % 360 = 0 -> 1 [] a % 360 = 90 -> 0 [] a % 360 = 180 -> -1 [] a % 360 = 270 -> 0
Sin(a) == CASE a % 360 = 0 -> 0 [] a % 360 = 90 -> 1 [] a % 360 = 180 -> 0 [] a % 360 = 270 -> -1

\* R(a), a in degrees clockwise from north
RotMat(a) ==
    (<<0,0>> :> Cos(a) @@ <<0,1>> :> Sin(a) @@ <<1,0>> :> -Sin(a) @@ <<1,1>> :> Cos(a))

CAdd(x, y) == <<x[1] + y[1], x[2] + y[2]>>
CScale(r, x) == <<r * x[1], r * x[2]>>

\* R m R^T for a 2x2 complex matrix m
RotateZMatrix(m, a) ==
    LET R == RotMat(a)
        term(i, j, p, q) == CScale(R[<<i, p>>] * R[<<j, q>>], m[<<p, q>>])
    IN  [c \in ZComps |->
          CAdd(CAdd(term(c[1], c[2], 0, 0), term(c[1], c[2], 0, 1)),
               CAdd(term(c[1], c[2], 1, 0), term(c[1], c[2], 1, 1)))]

\* t R^T for a 1x2 complex matrix t
RotateTMatrix(t, a) ==
    LET R == RotMat(a)
    IN  [j \in TComps |-> CAdd(CScale(R[<<j, 0>>], t[0]), CScale(R[<<j, 1>>], t[1]))]

\* Z.rotate(alpha): every matrix is rotated by alpha and alpha is added to the
\* array's running total
ZRotate(Zobj, alpha) ==
    [Zobj EXCEPT !.z = [k \in DOMAIN Zobj.z |-> RotateZMatrix(Zobj.z[k], alpha)],
                 !.rotation_angle = @ + alpha]

\* Tipper.rotate(alpha)
TipperRotate(Tobj, alpha) ==
    [Tobj EXCEPT !.tipper = [k \in DOMAIN Tobj.tipper |-> RotateTMatrix(Tobj.tipper[k], alpha)],
                 !.rotation_angle = @ + alpha]

\* a setter that rotates by the difference to the angle already applied
RotationAngleSetterDelta(self, theta_r) ==
    [ Z              |-> ZRotate(self.Z, theta_r - self.rotation_angle),
      Tipper         |-> TipperRotate(self.Tipper, theta_r - self.rotation_angle),
      rotation_angle |-> theta_r ]

\* MT.rotation_angle = theta_r.  (self.pt is a PhaseTensor built anew from Z
\* on every access, so rotating it changes nothing that is kept.)
RotationAngleSetter(self, theta_r) ==
    [ Z              |-> ZRotate(self.Z, theta_r),
      Tipper         |-> TipperRotate(self.Tipper, theta_r),
      rotation_angle |-> theta_r ]

\* ------------------------------------------------------------ interpolation

\* the frequencies a new_freq_array is drawn from: the file's range and one
\* decade beyond it on either side
TargetFreqs == {1, 10, 100, 1000, 10000}

NewFreqArrays == UNION {[1..n -> TargetFreqs] : n \in 1..MaxTargets}

\* new frequencies given as a list
NewFreqLists == {<<100>>, <<10000, 10>>}

\* period_buffer: <<>> for None, or <<p>> for p tenths: 0.5, 1.5, 10.0, 20.0
NoBuffer == <<>>
PeriodBuffers == {NoBuffer, <<5>>, <<15>>, <<100>>, <<200>>}

QZero == <<0, 1>>
ToQ(n) == <<n, 1>>
CZero == <<QZero, QZero>>
ToCQ(x) == <<ToQ(x[1]), ToQ(x[2])>>

\* a period_buffer that is used as it is given
PeriodBufferAsGiven(period_buffer) == period_buffer

\* lines 546-549: a period_buffer in (0, 1) becomes 1 + period_buffer
NormalizePeriodBuffer(period_buffer) ==
    IF period_buffer # NoBuffer /\ 0 < period_buffer[1] /\ period_buffer[1] < 10
    THEN <<period_buffer[1] + 10>>
    ELSE period_buffer

\* a bounds check that takes the end points for out of bounds
BoundsRaiseStrict(Zfreq, new_freq_array) ==
    \/ Min(Range(Zfreq)) >= Min(Range(new_freq_array))
    \/ Max(Range(Zfreq)) <= Max(Range(new_freq_array))

\* lines 562-579: the ValueError of the bounds check
BoundsRaise(Zfreq, new_freq_array) ==
    \/ Min(Range(Zfreq)) > Min(Range(new_freq_array))
    \/ Max(Range(Zfreq)) < Max(Range(new_freq_array))

\* np.nonzero(column): the indices of the non-zero samples of one component
NonZeroIndex(column) == AscSeq({k \in DOMAIN column : column[k] # <<0, 0>>})

\* np.where((new_freq_array >= f.min()) & (new_freq_array <= f.max()))
InBoundsIndex(new_freq_array, f) ==
    AscSeq({n \in DOMAIN new_freq_array :
              /\ new_freq_array[n] >= Min(Range(f))
              /\ new_freq_array[n] <= Max(Range(f))})

\* max(a / b, b / a) < period_buffer, period_buffer in tenths
RatioBelow(a, b, period_buffer) ==
    10 * (IF a > b THEN a ELSE b) < period_buffer * (IF a > b THEN b ELSE a)

\* |log10 a - log10 x| <= |log10 b - log10 x|: the ratio of a to x is at most
\* that of b to x
NoFarther(a, b, x) ==
    (IF a > x THEN a ELSE x) * (IF b > x THEN x ELSE b)
        <= (IF b > x THEN b ELSE x) * (IF a > x THEN x ELSE a)

\* lines 624-625: the first index of f at the least distance in log10 from ifreq
NearestIndex(f, ifreq) ==
    Min({k \in DOMAIN f : \A j \in DOMAIN f : NoFarther(f[k], f[j], ifreq)})

\* line 626: the target ifreq is kept
KeepByBuffer(f, ifreq, period_buffer) ==
    RatioBelow(f[NearestIndex(f, ifreq)], ifreq, period_buffer)

\* lines 619-630: new_nz_index after the period buffer
BufferIndex(new_freq_array, new_nz_index, f, period_buffer) ==
    AscSeq({n \in Range(new_nz_index) : KeepByBuffer(f, new_freq_array[n], period_buffer)})

\* an interpolation on the line through the samples at the least and at the
\* greatest frequency, whatever lies between them
Interp1dEnds(f, y, x) ==
    LET lo == CHOOSE k \in DOMAIN f : \A j \in DOMAIN f : f[k] <= f[j]
        hi == CHOOSE k \in DOMAIN f : \A j \in DOMAIN f : f[k] >= f[j]
    IN  IF f[lo] = f[hi] THEN <<y[lo], 1>>
        ELSE Rat(y[lo] * (f[hi] - f[lo]) + (y[hi] - y[lo]) * (x - f[lo]), f[hi] - f[lo])

\* scipy's interp1d(f, y, kind="slinear") at x, min(f) <= x <= max(f): the
\* line through the two samples that bracket x; f need not be sorted
Interp1d(f, y, x) ==
    LET lo == CHOOSE k \in DOMAIN f :
                  /\ f[k] <= x
                  /\ \A j \in DOMAIN f : f[j] <= x => f[j] <= f[k]
        hi == CHOOSE k \in DOMAIN f :
                  /\ f[k] >= x
                  /\ \A j \in DOMAIN f : f[j] >= x => f[j] >= f[k]
    IN  IF f[lo] = f[hi] THEN ToQ(y[lo])
        ELSE Rat(y[lo] * (f[hi] - f[lo]) + (y[hi] - y[lo]) * (x - f[lo]), f[hi] - f[lo])

\* line 601: the impedance loop skips a component only when it has no
\* non-zero sample
MinSamplesZ == 1

\* line 655: the tipper loop skips a component with fewer than 2
MinSamplesT == 2

\* lines 597-641: one pass of the impedance loop.  written: the indices of
\* new_Z it assigns; raised: the exception that ends the call
InterpolateZComponent(Zobj, c, new_freq_array, period_buffer) ==
    LET column   == [k \in DOMAIN Zobj.z |-> Zobj.z[k][c]]
        nz_index == NonZeroIndex(column)
        f        == [n \in DOMAIN nz_index |-> Zobj.freq[nz_index[n]]]
        z_real   == [n \in DOMAIN nz_index |-> column[nz_index[n]][1]]
        z_imag   == [n \in DOMAIN nz_index |-> column[nz_index[n]][2]]
        z_err    == [n \in DOMAIN nz_index |-> Zobj.z_err[nz_index[n]][c]]
        in_bounds == InBoundsIndex(new_freq_array, f)
        new_nz_index ==
            IF period_buffer # NoBuffer
            THEN BufferIndex(new_freq_array, in_bounds, f, period_buffer[1])
            ELSE in_bounds
    IN  IF Len(nz_index) < MinSamplesZ
        THEN [raised |-> None, written |-> {}, z |-> <<>>, z_err |-> <<>>]
        ELSE IF Len(f) < 2
        \* interp1d: x and y arrays must have at least 2 entries
        THEN [raised |-> "ValueError", written |-> {}, z |-> <<>>, z_err |-> <<>>]
        ELSE IF period_buffer # NoBuffer /\ new_nz_index = <<>>
        \* np.array([]) is an array of floats: it cannot be used as an index
        THEN [raised |-> "IndexError", written |-> {}, z |-> <<>>, z_err |-> <<>>]
        ELSE [raised  |-> None,
              written |-> Range(new_nz_index),
              z       |-> [n \in DOMAIN new_freq_array |->
                             IF n \in Range(new_nz_index)
                             THEN <<Interp1d(f, z_real, new_freq_array[n]),
                                    Interp1d(f, z_imag, new_freq_array[n])>>
                             ELSE CZero],
              z_err   |-> [n \in DOMAIN new_freq_array |->
                             IF n \in Range(new_nz_index)
                             THEN Interp1d(f, z_err, new_freq_array[n])
                             ELSE QZero]]

\* lines 651-683: one pass of the tipper loop; it never raises
InterpolateTComponent(Tobj, jj, new_freq_array) ==
    LET column   == [k \in DOMAIN Tobj.tipper |-> Tobj.tipper[k][jj]]
        nz_index == NonZeroIndex(column)
        f        == [n \in DOMAIN nz_index |-> Tobj.freq[nz_index[n]]]
        t_real   == [n \in DOMAIN nz_index |-> column[nz_index[n]][1]]
        t_imag   == [n \in DOMAIN nz_index |-> column[nz_index[n]][2]]
        t_err    == [n \in DOMAIN nz_index |-> Tobj.tipper_err[nz_index[n]][jj]]
        new_nz_index == InBoundsIndex(new_freq_array, f)
    IN  IF Len(nz_index) < MinSamplesT
        THEN [written |-> {},
              tipper     |-> [n \in DOMAIN new_freq_array |-> CZero],
              tipper_err |-> [n \in DOMAIN new_freq_array |-> QZero]]
        ELSE [written |-> Range(new_nz_index),
              tipper  |-> [n \in DOMAIN new_freq_array |->
                             IF n \in Range(new_nz_index)
                             THEN <<Interp1d(f, t_real, new_freq_array[n]),
                                    Interp1d(f, t_imag, new_freq_array[n])>>
                             ELSE CZero],
              tipper_err |-> [n \in DOMAIN new_freq_array |->
                             IF n \in Range(new_nz_index)
                             THEN Interp1d(f, t_err, new_freq_array[n])
                             ELSE QZero]]

\* an impedance object allocated without zeroing it (np.empty): what it holds
\* is whatever was in memory, here a one
NewZEmpty(new_freq_array) ==
    [ z     |-> [n \in DOMAIN new_freq_array |-> [c \in ZComps |-> <<ToQ(1), ToQ(1)>>]],
      z_err |-> [n \in DOMAIN new_freq_array |-> [c \in ZComps |-> ToQ(1)]],
      freq  |-> new_freq_array ]

\* lines 581-585: the new Z object, all zero, on the new frequencies
NewZ(new_freq_array) ==
    [ z     |-> [n \in DOMAIN new_freq_array |-> [c \in ZComps |-> CZero]],
      z_err |-> [n \in DOMAIN new_freq_array |-> [c \in ZComps |-> QZero]],
      freq  |-> new_freq_array ]

\* lines 587-591: the new Tipper object, all zero, on the new frequencies
NewTipper(new_freq_array) ==
    [ tipper     |-> [n \in DOMAIN new_freq_array |-> [jj \in TComps |-> CZero]],
      tipper_err |-> [n \in DOMAIN new_freq_array |-> [jj \in TComps |-> QZero]],
      freq       |-> new_freq_array ]

\* an interpolation that hands back the Station's own Tipper when it holds
\* no tipper
InterpolateTipperOwn(Tobj, new_freq_array) ==
    IF Tobj.tipper = <<>>
    THEN [tipper |-> Tobj.tipper, tipper_err |-> Tobj.tipper_err, freq |-> Tobj.freq]
    ELSE LET tpass == [jj \in TComps |-> InterpolateTComponent(Tobj, jj, new_freq_array)]
         IN  [ tipper     |-> [n \in DOMAIN new_freq_array |->
                                [jj \in TComps |-> tpass[jj].tipper[n]]],
               tipper_err |-> [n \in DOMAIN new_freq_array |->
                                [jj \in TComps |-> tpass[jj].tipper_err[n]]],
               freq  |-> new_freq_array ]

\* lines 646-685: the new Tipper as it is returned; it stays all zero when
\* the Station has no tipper (Tipper.tipper is None), and otherwise holds
\* what the pass of each component wrote
InterpolateTipper(Tobj, new_freq_array) ==
    IF Tobj.tipper = <<>>
    THEN NewTipper(new_freq_array)
    ELSE LET tpass == [jj \in TComps |-> InterpolateTComponent(Tobj, jj, new_freq_array)]
         IN  [ tipper     |-> [n \in DOMAIN new_freq_array |->
                                [jj \in TComps |->
                                   IF n \in tpass[jj].written THEN tpass[jj].tipper[n]
                                   ELSE NewTipper(new_freq_array).tipper[n][jj]]],
               tipper_err |-> [n \in DOMAIN new_freq_array |->
                                [jj \in TComps |->
                                   IF n \in tpass[jj].written THEN tpass[jj].tipper_err[n]
                                   ELSE NewTipper(new_freq_array).tipper_err[n][jj]]],
               freq  |-> NewTipper(new_freq_array).freq ]

\* the order of "for ii in range(2): for jj in range(2)"
ZLoopOrder == << <<0, 0>>, <<0, 1>>, <<1, 0>>, <<1, 1>> >>

\* MT.interpolate(new_freq_array, "slinear", bounds_error, period_buffer):
\* what it raises (raised, with why: the bounds check, interp1d or the index;
\* and at: the impedance component whose pass raised), or the new Z and
\* Tipper it returns.  The resistivity, phase, magnitude and direction that
\* are recomputed from the new arrays are not modelled.
Interpolate(self, new_freq_array, bounds_error, period_buffer_arg) ==
    LET period_buffer == NormalizePeriodBuffer(period_buffer_arg)
        pass == [c \in ZComps |->
                    InterpolateZComponent(self.Z, c, new_freq_array, period_buffer)]
        raising == {n \in DOMAIN ZLoopOrder : pass[ZLoopOrder[n]].raised # None}
    IN  IF bounds_error /\ BoundsRaise(self.Z.freq, new_freq_array)
        THEN [raised |-> "ValueError", why |-> "bounds", at |-> <<>>,
              new_Z |-> None, new_Tipper |-> None]
        ELSE IF raising # {}
        THEN [raised |-> pass[ZLoopOrder[Min(raising)]].raised,
              why    |-> IF pass[ZLoopOrder[Min(raising)]].raised = "ValueError"
                         THEN "interp1d" ELSE "index",
              at     |-> ZLoopOrder[Min(raising)],
              new_Z |-> None, new_Tipper |-> None]
        ELSE [raised |-> None, why |-> None, at |-> <<>>,
              new_Z  |->
                [ z     |-> [n \in DOMAIN new_freq_array |->
                              [c \in ZComps |->
                                 IF n \in pass[c].written THEN pass[c].z[n]
                                 ELSE NewZ(new_freq_array).z[n][c]]],
                  z_err |-> [n \in DOMAIN new_freq_array |->
                              [c \in ZComps |->
                                 IF n \in pass[c].written THEN pass[c].z_err[n]
                                 ELSE NewZ(new_freq_array).z_err[n][c]]],
                  freq  |-> NewZ(new_freq_array).freq ],
              new_Tipper |-> InterpolateTipper(self.Tipper, new_freq_array)]

\* ------------------------------------------------ which array is which

\* An array is told from another by its identity <<kind, name>>: "own" is an
\* array of the MT object's Z or Tipper, "arg" an array of the caller,
\* "copy" and "new" arrays made during the call.
OwnArrays ==
    { <<"own", "Z.z">>, <<"own", "Z.z_err">>, <<"own", "Z.freq">>,
      <<"own", "Tipper.tipper">>, <<"own", "Tipper.tipper_err">>, <<"own", "Tipper.freq">> }

\* ndarray.copy(), copy.deepcopy: another array with the same values
ArrayCopy(id) == <<"copy", id[2]>>

\* a new array: np.zeros, np.array(a list), the result of arithmetic
NewArray(name) == <<"new", name>>

\* MTz.Z(z_array, z_err_array, freq) and MTz.Tipper(...): the object stores
\* the arrays it is given
StoredArrays(a, a_err, freq) == [val |-> a, err |-> a_err, freq |-> freq]

\* lines 543-544 and 581-592: the arrays of the Z and the Tipper that
\* interpolate returns, given the new_freq_array of the caller; only an
\* argument that is no ndarray (a list) is made into a new array
InterpolateArrays(new_freq_array_id) ==
    LET new_freq_array == IF new_freq_array_id[1] = "list"
                          THEN NewArray("np.array(new_freq_array)")
                          ELSE new_freq_array_id
    IN  [ Z      |-> StoredArrays(NewArray("z_array"), NewArray("z_err_array"),
                                  new_freq_array),
          Tipper |-> StoredArrays(NewArray("tipper_array"), NewArray("tipper_err_array"),
                                  new_freq_array) ]

\* an interpolate that builds its result in the object's own Z: the bounds
\* check passed, Z is zeroed on the new frequencies before the loop
SelfAfterInterpolateInPlace(self, new_freq_array, bounds_error, period_buffer) ==
    IF bounds_error /\ BoundsRaise(self.Z.freq, new_freq_array)
    THEN self
    ELSE [self EXCEPT
            !.Z.z     = [n \in DOMAIN new_freq_array |-> [c \in ZComps |-> <<0, 0>>]],
            !.Z.z_err = [n \in DOMAIN new_freq_array |-> [c \in ZComps |-> 0]],
            !.Z.freq  = new_freq_array]

\* the object after MT.interpolate: the method assigns to new_Z and
\* new_Tipper only
SelfAfterInterpolate(self, new_freq_array, bounds_error, period_buffer) == self

\* ------------------------------------------------------------ static shift

\* ss_x, ss_y: squares, so that their roots are exact, and two values that
\* are not positive
SSFactors == {-1, 0, 1, 4, 9}

Sqrt(n) == CHOOSE r \in 0..n : r * r = n

\* the complex number x over the positive integer d
CDiv(x, d) == <<Rat(x[1], d), Rat(x[2], d)>>

\* Z.remove_ss(reduce_res_factor_x, reduce_res_factor_y): S = diag(sqrt x,
\* sqrt y) and S^-1 Z at every frequency - the x row over sqrt x, the y row
\* over sqrt y - or an error when a factor is not positive
ZRemoveSS(Zobj, reduce_res_factor_x, reduce_res_factor_y) ==
    IF reduce_res_factor_x <= 0 \/ reduce_res_factor_y <= 0
    THEN [raised |-> "InvalidParameterError", s_array |-> None, new_z |-> None]
    ELSE [raised  |-> None,
          s_array |-> <<Sqrt(reduce_res_factor_x), Sqrt(reduce_res_factor_y)>>,
          new_z   |-> [k \in DOMAIN Zobj.z |->
                        [c \in ZComps |->
                           CDiv(Zobj.z[k][c],
                                Sqrt(IF c[1] = 0 THEN reduce_res_factor_x
                                                 ELSE reduce_res_factor_y))]]]

\* a remove_static_shift that takes the error array for the impedance
RemoveStaticShiftOfErrors(self, ss_x, ss_y) ==
    LET r == ZRemoveSS(self.Z, ss_x, ss_y)
    IN  [raised    |-> r.raised,
         new_z_obj |-> IF r.raised # None THEN None
                       ELSE [z     |-> [k \in DOMAIN self.Z.z |->
                                         [c \in ZComps |-> <<ToQ(self.Z.z_err[k][c]), QZero>>]],
                             z_err |-> self.Z.z_err,
                             freq  |-> self.Z.freq],
         arrays    |-> IF r.raised # None THEN None
                       ELSE StoredArrays(ArrayCopy(<<"own", "Z.z_err">>),
                                         ArrayCopy(<<"own", "Z.z_err">>),
                                         ArrayCopy(<<"own", "Z.freq">>)),
         self      |-> self]

\* a remove_static_shift that scales the errors as it scales the impedance
RemoveStaticShiftScalingErrors(self, ss_x, ss_y) ==
    LET r == ZRemoveSS(self.Z, ss_x, ss_y)
    IN  [raised    |-> r.raised,
         new_z_obj |-> IF r.raised # None THEN None
                       ELSE [z     |-> r.new_z,
                             z_err |-> [k \in DOMAIN self.Z.z_err |->
                                         [c \in ZComps |->
                                            self.Z.z_err[k][c]
                                              \div Sqrt(IF c[1] = 0 THEN ss_x ELSE ss_y)]],
                             freq  |-> self.Z.freq],
         arrays    |-> IF r.raised # None THEN None
                       ELSE StoredArrays(NewArray("new_z"), NewArray("z_err"),
                                         ArrayCopy(<<"own", "Z.freq">>)),
         self      |-> self]

\* a remove_static_shift that returns the object's own Z when the factors are
\* refused
RemoveStaticShiftLenient(self, ss_x, ss_y) ==
    LET r == ZRemoveSS(self.Z, ss_x, ss_y)
    IN  [raised    |-> None,
         new_z_obj |-> [z     |-> IF r.raised # None
                                  THEN [k \in DOMAIN self.Z.z |->
                                          [c \in ZComps |-> ToCQ(self.Z.z[k][c])]]
                                  ELSE r.new_z,
                        z_err |-> self.Z.z_err,
                        freq  |-> self.Z.freq],
         arrays    |-> StoredArrays(NewArray("new_z"),
                                    ArrayCopy(<<"own", "Z.z_err">>),
                                    ArrayCopy(<<"own", "Z.freq">>)),
         self      |-> self]

\* MT.remove_static_shift(ss_x, ss_y): what it raises, or the new Z object
\* it returns, with the arrays that object stores, and the object after it
RemoveStaticShift(self, ss_x, ss_y) ==
    LET r == ZRemoveSS(self.Z, ss_x, ss_y)
    IN  [raised    |-> r.raised,
         new_z_obj |-> IF r.raised # None THEN None
                       ELSE [z     |-> r.new_z,
                             z_err |-> self.Z.z_err,
                             freq  |-> self.Z.freq],
         arrays    |-> IF r.raised # None THEN None
                       ELSE StoredArrays(NewArray("new_z"),
                                         ArrayCopy(<<"own", "Z.z_err">>),
                                         ArrayCopy(<<"own", "Z.freq">>)),
         self      |-> self]

\* -------------------------------------------------------------- distortion

\* num_freq: <<>> for None, or <<n>>
NoNumFreq == <<>>
NumFreqs == {NoNumFreq, <<0>>, <<3>>, <<4>>, <<5>>, <<6>>}

\* The least-squares fit of the distortion matrix is not modelled: D is any
\* of these real 2x2 matrices, the last of which is singular.
DEstimates ==
    { (<<0,0>> :> 1 @@ <<0,1>> :> 0 @@ <<1,0>> :> 0 @@ <<1,1>> :> 1),
      (<<0,0>> :> 1 @@ <<0,1>> :> 1 @@ <<1,0>> :> 0 @@ <<1,1>> :> 1),
      (<<0,0>> :> 1 @@ <<0,1>> :> 1 @@ <<1,0>> :> 1 @@ <<1,1>> :> 1) }

Det(D) == D[<<0,0>>] * D[<<1,1>>] - D[<<0,1>>] * D[<<1,0>>]

\* the inverse of a matrix of determinant 1 or -1
Inverse(D) ==
    (<<0,0>> :> Det(D) * D[<<1,1>>] @@ <<0,1>> :> - Det(D) * D[<<0,1>>] @@
     <<1,0>> :> - Det(D) * D[<<1,0>>] @@ <<1,1>> :> Det(D) * D[<<0,0>>])

\* the real matrix A times the complex matrix m
MatMul(A, m) ==
    [c \in ZComps |-> CAdd(CScale(A[<<c[1], 0>>], m[<<0, c[2]>>]),
                           CScale(A[<<c[1], 1>>], m[<<1, c[2]>>]))]

\* mtpy.analysis.distortion.remove_distortion(z_object, num_freq): num_freq
\* must be at most the number of samples and at least 4; a singular D is an
\* error; otherwise D and D^-1 Z at every frequency.  (The errors of the
\* corrected Z are not modelled.)
DistortionRemove(z_object, num_freq, D) ==
    IF num_freq # NoNumFreq /\ (num_freq[1] > Len(z_object.freq) \/ num_freq[1] < 4)
    THEN [raised |-> "InvalidParameterError", D |-> None, z |-> None]
    ELSE IF Det(D) = 0
    THEN [raised |-> "SingularDistortionError", D |-> None, z |-> None]
    ELSE [raised |-> None, D |-> D,
          z |-> [k \in DOMAIN z_object.z |-> MatMul(Inverse(D), z_object.z[k])]]

\* a remove_distortion that hands the object's own Z to the fit: where the
\* fit writes the corrected impedance into the object it was given
\* (in_place), that object is the MT object's own
RemoveDistortionNoCopy(self, num_freq, D, in_place) ==
    LET r == DistortionRemove(self.Z, num_freq, D)
    IN  [raised       |-> r.raised,
         D            |-> r.D,
         new_z_object |-> IF r.raised # None THEN None
                          ELSE [z |-> r.z, freq |-> self.Z.freq],
         arrays       |-> IF r.raised # None THEN None
                          ELSE IF in_place
                          THEN StoredArrays(NewArray("z"), NewArray("z_err"),
                                            <<"own", "Z.freq">>)
                          ELSE StoredArrays(NewArray("z"), NewArray("z_err"),
                                            NewArray("freq")),
         self         |-> IF r.raised = None /\ in_place
                          THEN [self EXCEPT !.Z.z = r.z]
                          ELSE self]

\* a remove_distortion that brings num_freq into the range the fit accepts
RemoveDistortionClamping(self, num_freq, D, in_place) ==
    LET dummy_z_obj == self.Z
        clamped == IF num_freq = NoNumFreq THEN num_freq
                   ELSE IF num_freq[1] > Len(self.Z.freq) THEN <<Len(self.Z.freq)>>
                   ELSE IF num_freq[1] < 4 THEN NoNumFreq
                   ELSE num_freq
        r == DistortionRemove(dummy_z_obj, clamped, D)
    IN  [raised       |-> r.raised,
         D            |-> r.D,
         new_z_object |-> IF r.raised # None THEN None
                          ELSE [z |-> r.z, freq |-> dummy_z_obj.freq],
         arrays       |-> IF r.raised # None THEN None
                          ELSE StoredArrays(NewArray("z"), NewArray("z_err"),
                                            ArrayCopy(<<"own", "Z.freq">>)),
         self         |-> self]

\* MT.remove_distortion(num_freq): the fit is given a deep copy of Z
\* (dummy_z_obj), so that whether it returns its result in the object it was
\* given (in_place) or in a new one, no array is the MT object's own
RemoveDistortion(self, num_freq, D, in_place) ==
    LET dummy_z_obj == self.Z
        r == DistortionRemove(dummy_z_obj, num_freq, D)
    IN  [raised       |-> r.raised,
         D            |-> r.D,
         new_z_object |-> IF r.raised # None THEN None
                          ELSE [z |-> r.z, freq |-> dummy_z_obj.freq],
         arrays       |-> IF r.raised # None THEN None
                          ELSE IF in_place
                          THEN StoredArrays(NewArray("z"), NewArray("z_err"),
                                            ArrayCopy(<<"own", "Z.freq">>))
                          ELSE StoredArrays(NewArray("z"), NewArray("z_err"),
                                            NewArray("freq")),
         self         |-> self]

\* ------------------------------------------------------------------ strings

\* a string is the sequence of its characters; the characters in the order
\* of their codes, as far as the comparisons of the code need it
Digits == <<"0", "1", "2", "3", "4", "5", "6", "7", "8", "9">>
UpperCase ==
    <<"A", "B", "C", "D", "E", "F", "G", "H", "I", "J", "K", "L", "M",
      "N", "O", "P", "Q", "R", "S", "T", "U", "V", "W", "X", "Y", "Z">>
LowerCase ==
    <<"a", "b", "c", "d", "e", "f", "g", "h", "i", "j", "k", "l", "m",
      "n", "o", "p", "q", "r", "s", "t", "u", "v", "w", "x", "y", "z">>
Ascii == <<".", "/">> \o Digits \o UpperCase \o LowerCase

\* the place of a character in the order of the codes
Ord(ch) == CHOOSE i \in DOMAIN Ascii : Ascii[i] = ch

\* str.lower, of one character and of a string
LowerChar(ch) ==
    IF \E i \in DOMAIN UpperCase : UpperCase[i] = ch
    THEN LowerCase[CHOOSE i \in DOMAIN UpperCase : UpperCase[i] = ch]
    ELSE ch
Lower(s) == [i \in DOMAIN s |-> LowerChar(s[i])]

\* str.count of one character
Count(s, ch) == Cardinality({i \in DOMAIN s : s[i] = ch})

IsDigit(ch) == \E i \in DOMAIN Digits : Digits[i] = ch
DigitValue(ch) == (CHOOSE i \in DOMAIN Digits : Digits[i] = ch) - 1

\* int(s) of a string: a ValueError unless s is one digit or more
RECURSIVE IntValue(_)
IntValue(s) ==
    IF s = <<>> THEN 0
    ELSE 10 * IntValue(SubSeq(s, 1, Len(s) - 1)) + DigitValue(s[Len(s)])
ParseInt(s) ==
    IF s # <<>> /\ \A i \in DOMAIN s : IsDigit(s[i])
    THEN [raised |-> None, value |-> IntValue(s)]
    ELSE [raised |-> "ValueError", value |-> 0]

\* '{0:02.0f}'.format(n), n a whole number below 100
Format02(n) == <<Digits[(n \div 10) + 1], Digits[(n % 10) + 1]>>

\* ---------------------------------------------------------------- location

\* latitudes and longitudes, in whole degrees; 90 and -180 are refused by
\* assert_lat_value and assert_lon_value
Latitudes == {-33, 0, 45, 90}
Longitudes == {-180, -70, 3, 150}

\* an easting and a northing assigned by the caller, in the unit of
\* TransformPoint: the easting of (-33, 150) in zone 56, the northing of
\* latitude 45
Eastings == {2}
Northings == {45}

\* zone names assigned by the caller: a zone with the letter of its latitude
\* band (as get_utm_zone names zones), a zone with the letter of the
\* hemisphere (as the docstrings of gis_tools name them), and '0'
UtmZones == {<<"5", "6", "H">>, <<"5", "5", "S">>, <<"0">>}

\* lines 121-123, and a location that the metadata does not hold yet;
\* _latitude and _longitude are the attributes the east and north setters
\* write
NoLocation ==
    [latitude |-> <<>>, longitude |-> <<>>, east |-> <<>>, north |-> <<>>,
     utm_zone |-> <<>>, _latitude |-> <<>>, _longitude |-> <<>>]

\* gis_tools._utm_letter_designator
UtmLetterDesignator(lat) ==
    CASE 84 >= lat /\ lat >= 72 -> "X"
      [] 72 > lat /\ lat >= 64 -> "W"
      [] 64 > lat /\ lat >= 56 -> "V"
      [] 56 > lat /\ lat >= 48 -> "U"
      [] 48 > lat /\ lat >= 40 -> "T"
      [] 40 > lat /\ lat >= 32 -> "S"
      [] 32 > lat /\ lat >= 24 -> "R"
      [] 24 > lat /\ lat >= 16 -> "Q"
      [] 16 > lat /\ lat >= 8 -> "P"
      [] 8 > lat /\ lat >= 0 -> "N"
      [] 0 > lat /\ lat >= -8 -> "M"
      [] -8 > lat /\ lat >= -16 -> "L"
      [] -16 > lat /\ lat >= -24 -> "K"
      [] -24 > lat /\ lat >= -32 -> "J"
      [] -32 > lat /\ lat >= -40 -> "H"
      [] -40 > lat /\ lat >= -48 -> "G"
      [] -48 > lat /\ lat >= -56 -> "F"
      [] -56 > lat /\ lat >= -64 -> "E"
      [] -64 > lat /\ lat >= -72 -> "D"
      [] -72 > lat /\ lat >= -80 -> "C"
      [] OTHER -> "Z"

\* gis_tools.get_utm_zone: the zone number, whether the zone is northern and
\* the zone's name, two digits and the letter of the latitude band
GetUtmZone(latitude, longitude) ==
    LET zone_number == 1 + (longitude + 180) \div 6
    IN  [zone_number |-> zone_number,
         is_northern |-> IF latitude >= 0 THEN 1 ELSE 0,
         utm_zone    |-> Format02(zone_number) \o <<UtmLetterDesignator(latitude)>>]

\* osr's transformation of (lon, lat) into a UTM zone, reduced to what makes
\* a UTM coordinate: the easting is the distance from the zone's central
\* meridian plus a false easting (5), the northing the distance from the
\* equator, plus a false northing (100) in a southern zone; one degree is
\* one unit
TransformPoint(lon, lat, zone_number, is_northern) ==
    [easting  |-> 5 + lon - (6 * zone_number - 183),
     northing |-> IF is_northern = 1 THEN lat ELSE 100 + lat]

\* the transformation from the UTM zone back to (lon, lat)
TransformPointInverse(easting, northing, zone_number, is_northern) ==
    [lon |-> (6 * zone_number - 183) + easting - 5,
     lat |-> IF is_northern = 1 THEN northing ELSE northing - 100]

\* gis_tools.project_point_ll2utm(lat, lon, datum), lat and lon <<>> for None
ProjectPointLL2UTM(lat, lon) ==
    IF lat # <<>> /\ Abs(lat[1]) >= 90
    THEN [raised |-> "ValueError", easting |-> <<>>, northing |-> <<>>, utm_zone |-> <<>>]
    ELSE IF lon # <<>> /\ Abs(lon[1]) >= 180
    THEN [raised |-> "ValueError", easting |-> <<>>, northing |-> <<>>, utm_zone |-> <<>>]
    ELSE IF lat = <<>> \/ lon = <<>>
    THEN [raised |-> None, easting |-> <<>>, northing |-> <<>>, utm_zone |-> <<>>]
    ELSE LET zone == GetUtmZone(lat[1], lon[1])
             point == TransformPoint(lon[1], lat[1], zone.zone_number, zone.is_northern)
         IN  [raised   |-> None,
              easting  |-> <<point.easting>>,
              northing |-> <<point.northing>>,
              utm_zone |-> <<zone.utm_zone>>]

\* a latitude setter that projects before it stores the new latitude
LatitudeSetterStale(self, latitude) ==
    LET p == ProjectPointLL2UTM(self.latitude, self.longitude)
    IN  [raised |-> p.raised,
         self   |-> IF p.raised # None THEN [self EXCEPT !.latitude = <<latitude>>]
                    ELSE [self EXCEPT !.latitude = <<latitude>>, !.east = p.easting,
                                      !.north = p.northing, !.utm_zone = p.utm_zone]]

\* MT.latitude = latitude: the latitude is stored in the metadata; the test
\* "longitude is not None or longitude != 0.0" holds of every longitude, so
\* the point is projected every time; an error of the projection leaves east,
\* north and utm_zone as they were
LatitudeSetter(self, latitude) ==
    LET stored == [self EXCEPT !.latitude = <<latitude>>]
        p == ProjectPointLL2UTM(stored.latitude, stored.longitude)
    IN  [raised |-> p.raised,
         self   |-> IF p.raised # None THEN stored
                    ELSE [stored EXCEPT !.east = p.easting, !.north = p.northing,
                                        !.utm_zone = p.utm_zone]]

\* MT.longitude = longitude
LongitudeSetter(self, longitude) ==
    LET stored == [self EXCEPT !.longitude = <<longitude>>]
        p == ProjectPointLL2UTM(stored.latitude, stored.longitude)
    IN  [raised |-> p.raised,
         self   |-> IF p.raised # None THEN stored
                    ELSE [stored EXCEPT !.east = p.easting, !.north = p.northing,
                                        !.utm_zone = p.utm_zone]]

\* project_point_ll2utm, line 253: is_northern of a zone name given by the
\* caller
IsNorthernLL2UTM(utm_zone) == Min({1, Count(Lower(utm_zone), "s")})

\* the interpreters the package is written for: occam2d.py has print
\* statements (Python 2), mt.py has f-strings (Python 3), gis_tools.py
\* imports print_function from __future__ and is read by both
Pythons == {2, 3}

\* gis_tools.project_point_ll2utm(lat, lon, datum, utm_zone), with a zone
\* name: filter(str.isdigit, utm_zone) is a string in Python 2 and an
\* iterator, which int() refuses, in Python 3
ProjectPointLL2UTMInZone(lat, lon, utm_zone, python) ==
    LET failed(error) == [raised |-> error, easting |-> <<>>, northing |-> <<>>,
                          utm_zone |-> <<>>, is_northern |-> <<>>]
        number == ParseInt(SelectSeq(utm_zone, IsDigit))
        is_northern == IsNorthernLL2UTM(utm_zone)
        point == TransformPoint(lon, lat, number.value, is_northern)
    IN  IF Abs(lat) >= 90 \/ Abs(lon) >= 180 THEN failed("ValueError")
        ELSE IF python = 3 THEN failed("TypeError")
        ELSE IF number.raised # None THEN failed(number.raised)
        ELSE [raised      |-> None,
              easting     |-> <<point.easting>>,
              northing    |-> <<point.northing>>,
              utm_zone    |-> <<utm_zone>>,
              is_northern |-> <<is_northern>>]

\* project_point_utm2ll, line 336: is_northern of the zone's letter
IsNorthernUTM2LL(zone_letter) ==
    IF Ord(LowerChar(zone_letter)) >= Ord("n") THEN 1 ELSE 0

\* gis_tools.project_point_utm2ll(easting, northing, utm_zone, datum), with
\* no epsg: latitude and longitude of the point, or the ValueError of an
\* empty zone name, of '0', or of a zone number that is no number
ProjectPointUTM2LL(easting, northing, utm_zone) ==
    LET failed == [raised |-> "ValueError", lat |-> <<>>, lon |-> <<>>,
                   is_northern |-> <<>>]
        number == ParseInt(SubSeq(utm_zone, 1, Len(utm_zone) - 1))
        is_northern == IsNorthernUTM2LL(utm_zone[Len(utm_zone)])
        point == TransformPointInverse(easting, northing, number.value, is_northern)
    IN  IF utm_zone = <<>> \/ utm_zone = <<"0">> THEN failed
        ELSE IF number.raised # None THEN failed
        ELSE [raised      |-> None,
              lat         |-> <<point.lat>>,
              lon         |-> <<point.lon>>,
              is_northern |-> <<is_northern>>]

\* zone names given to the two projections: the hemisphere named by N or S
\* as their docstrings say, in capital and in small letters
ZoneNames ==
    { <<"5", "5", "S">>, <<"5", "5", "N">>, <<"0", "3", "N">>,
      <<"1", "0", "s">>, <<"3", "1", "n">> }

\* MT.east = easting: the easting is stored; with a northing and a zone the
\* point is projected back and the result assigned to self._latitude and
\* self._longitude, which the accessors latitude and longitude do not read
EastSetter(self, easting) ==
    LET stored == [self EXCEPT !.east = <<easting>>]
        p == ProjectPointUTM2LL(stored.east[1], stored.north[1], stored.utm_zone[1])
    IN  IF stored.north = <<>> \/ stored.utm_zone = <<>>
        THEN [raised |-> None, self |-> stored]
        ELSE [raised |-> p.raised,
              self   |-> IF p.raised # None THEN stored
                         ELSE [stored EXCEPT !._latitude = p.lat,
                                             !._longitude = p.lon]]

\* MT.north = northing
NorthSetter(self, northing) ==
    LET stored == [self EXCEPT !.north = <<northing>>]
        p == ProjectPointUTM2LL(stored.east[1], stored.north[1], stored.utm_zone[1])
    IN  IF stored.east = <<>> \/ stored.utm_zone = <<>>
        THEN [raised |-> None, self |-> stored]
        ELSE [raised |-> p.raised,
              self   |-> IF p.raised # None THEN stored
                         ELSE [stored EXCEPT !._latitude = p.lat,
                                             !._longitude = p.lon]]

\* a utm_zone setter that answers an error of the projection with no
\* latitude and no longitude
UtmZoneSetterSwallowing(self, utm_zone) ==
    LET stored == [self EXCEPT !.utm_zone = <<utm_zone>>]
        p == ProjectPointUTM2LL(stored.east[1], stored.north[1], stored.utm_zone[1])
    IN  IF stored.north = <<>> \/ stored.east = <<>>
        THEN [raised |-> None, self |-> stored]
        ELSE [raised |-> None,
              self   |-> [stored EXCEPT !.latitude = p.lat, !.longitude = p.lon]]

\* MT.utm_zone = utm_zone: the name is stored as it is given; with a
\* northing and an easting the point is projected back and the result
\* stored in the metadata, where latitude and longitude are read
UtmZoneSetter(self, utm_zone) ==
    LET stored == [self EXCEPT !.utm_zone = <<utm_zone>>]
        p == ProjectPointUTM2LL(stored.east[1], stored.north[1], stored.utm_zone[1])
    IN  IF stored.north = <<>> \/ stored.east = <<>>
        THEN [raised |-> None, self |-> stored]
        ELSE [raised |-> p.raised,
              self   |-> IF p.raised # None THEN stored
                         ELSE [stored EXCEPT !.latitude = p.lat,
                                             !.longitude = p.lon]]

\* ------------------------------------------------------------- construction

\* a path is the sequence of its components, "/" first when it is absolute;
\* os.getcwd()
Cwd == <<"/", "home">>

\* the file names given to the constructor: absolute, relative, and with
\* components that normpath removes
FileNames ==
    { <<"/", "data", "mt01.edi">>,
      <<"mt01.edi">>,
      <<".", "data", "..", "mt01.edi">>,
      <<"..", "mt01.edi">> }

\* os.path.normpath: "." is dropped, ".." takes the component before it
\* away, and is dropped at the root
RECURSIVE Normpath(_)
Normpath(path) ==
    IF path = <<>> THEN <<>>
    ELSE LET head == Normpath(SubSeq(path, 1, Len(path) - 1))
             comp == path[Len(path)]
         IN  IF comp = "." THEN head
             ELSE IF comp # ".." THEN Append(head, comp)
             ELSE IF head = <<"/">> THEN head
             ELSE IF head = <<>> \/ head[Len(head)] = ".." THEN Append(head, comp)
             ELSE SubSeq(head, 1, Len(head) - 1)

\* os.path.abspath
Abspath(path) == Normpath(IF path[1] = "/" THEN path ELSE Cwd \o path)

\* the keyword arguments given to the constructor, in their order
KwargChoices ==
    { <<>>,
      << <<"latitude", 45>> >>,
      << <<"latitude", -33>>, <<"longitude", 150>> >>,
      << <<"longitude", 3>>, <<"latitude", 90>> >> }

\* setattr(self, key, value) for each keyword argument, lines 136-137; the
\* first error ends the loop
RECURSIVE SetAttrs(_, _)
SetAttrs(self, kwargs) ==
    IF kwargs = <<>> THEN [raised |-> None, self |-> self]
    ELSE LET set == IF kwargs[1][1] = "latitude"
                    THEN LatitudeSetter(self.loc, kwargs[1][2])
                    ELSE LongitudeSetter(self.loc, kwargs[1][2])
             after == [self EXCEPT !.loc = set.self]
         IN  IF set.raised # None THEN [raised |-> set.raised, self |-> after]
             ELSE SetAttrs(after, Tail(kwargs))

\* MT.__init__(fn, **kwargs), fn <<>> for None: the object is made empty;
\* with a file name, self.read_mt_file(fn) is called, and class MT has no
\* attribute read_mt_file (the function of that name, line 775, is one of
\* the module): the call raises AttributeError and line 133 is not reached
MTInit(fn, kwargs) ==
    LET empty == [Z |-> EmptyZ, Tipper |-> EmptyTipper, rotation_angle |-> 0,
                  loc |-> NoLocation, _fn |-> <<>>]
    IN  IF fn # <<>> THEN [raised |-> "AttributeError", self |-> empty]
        ELSE SetAttrs(empty, kwargs)

\* ------------------------------------------------------------------ writing

\* the station name (MT.station), and the arguments of write_mt_file
Station == <<"m", "t", "0", "1">>
SaveDirs == {<<"/", "out">>}
FnBasenames ==
    { <<"a", ".", "e", "d", "i">>,
      <<"a", ".", "E", "D", "I">>,
      <<"a", ".", "X", "m", "l">>,
      <<"a", ".", "b", ".", "x", "m", "l">>,
      <<"a">>,
      <<"a", ".", "j">>,
      <<"a", ".", "e", "d", "i", ".", "t">> }
FileTypes == {<<"e", "d", "i">>, <<"x", "m", "l">>, <<"E", "D", "I">>}

\* the number of files on the disk up to which write_mt_file is called
MaxWrites == 2

\* os.path.splitext of a name without directory: the extension starts at
\* the last dot, unless only dots come before it
Splitext(name) ==
    LET dots == {i \in DOMAIN name : name[i] = "."}
        dot  == Max(dots)
    IN  IF dots # {} /\ \E i \in 1..(dot - 1) : name[i] # "."
        THEN [root |-> SubSeq(name, 1, dot - 1), ext |-> SubSeq(name, dot, Len(name))]
        ELSE [root |-> name, ext |-> <<>>]

\* "{0}.{1}".format(a, b)
DotFormat(a, b) == a \o <<".">> \o b

\* os.path.join(save_dir, fn_basename) of a directory and a name without
\* directory
PathJoin(dir, name) == [dir |-> dir, name |-> name]

\* mtpy.core.io.readwrite.write_file(mt_object, fn, file_type): the file it
\* writes, and the path it returns
WriteFile(fn, file_type) == [fn |-> fn, file_type |-> file_type]

\* a write_mt_file that writes the format its argument file_type names,
\* whatever the extension
WriteMTFileByFileType(self, save_dir, fn_basename, file_type) ==
    LET dir  == IF save_dir # <<>> THEN save_dir[1] ELSE self.save_dir
        name == IF fn_basename = <<>> THEN DotFormat(self.station, file_type)
                ELSE IF Splitext(fn_basename[1]).ext = <<>>
                THEN DotFormat(fn_basename[1], Lower(file_type))
                ELSE fn_basename[1]
    IN  [raised |-> None, save_dir |-> dir,
         written |-> {WriteFile(PathJoin(dir, name), file_type)}]

\* MT.write_mt_file(save_dir, fn_basename, file_type), save_dir and
\* fn_basename <<>> for None: the directory kept by the Station, what is
\* raised, and the file written
WriteMTFile(self, save_dir, fn_basename, file_type) ==
    LET dir   == IF save_dir # <<>> THEN save_dir[1] ELSE self.save_dir
        parts == Splitext(fn_basename[1])
        ext   == Lower(IF parts.ext = <<>> THEN <<>> ELSE Tail(parts.ext))
    IN  IF fn_basename = <<>>
        THEN [raised |-> None, save_dir |-> dir,
              written |-> {WriteFile(PathJoin(dir, DotFormat(self.station, file_type)),
                                     file_type)}]
        ELSE IF ext = <<>>
        THEN [raised |-> None, save_dir |-> dir,
              written |-> {WriteFile(PathJoin(dir, DotFormat(parts.root, Lower(file_type))),
                                     file_type)}]
        ELSE IF ext \in {<<"x", "m", "l">>, <<"e", "d", "i">>}
        THEN [raised |-> None, save_dir |-> dir,
              written |-> {WriteFile(PathJoin(dir, DotFormat(parts.root, ext)), ext)}]
        ELSE [raised |-> "MTError", save_dir |-> dir, written |-> {}]

\* ------------------------------------------------------ the Occam2D profile

\* arithmetic of rationals <<numerator, denominator>>, the denominator
\* positive
QNorm(n, d) == IF d < 0 THEN Rat(-n, -d) ELSE Rat(n, d)
QAdd(a, b) == Rat(a[1] * b[2] + b[1] * a[2], a[2] * b[2])
QSub(a, b) == Rat(a[1] * b[2] - b[1] * a[2], a[2] * b[2])
QMul(a, b) == Rat(a[1] * b[1], a[2] * b[2])
QDiv(a, b) == QNorm(a[1] * b[2], a[2] * b[1])
QAbs(a) == <<Abs(a[1]), a[2]>>
QLe(a, b) == a[1] * b[2] <= b[1] * a[2]

\* at most this many EDI files in the list
MaxStations == 3

\* the eastings and northings of the stations, in one UTM zone, and the
\* station names in the order of the list
EdiEasts == 0..2
EdiNorths == 0..2
StationNames == <<"s1", "s2", "s3">>

\* edilist: 2 to MaxStations files of stations at different places, not all
\* at one easting (the regression needs two eastings)
EdiLists ==
    LET Points == [east : EdiEasts, north : EdiNorths]
    IN  { edilist \in UNION {[1..n -> Points] : n \in 2..MaxStations} :
            /\ \A i, j \in DOMAIN edilist : i # j => edilist[i] # edilist[j]
            /\ \E i, j \in DOMAIN edilist : edilist[i].east # edilist[j].east }

\* sp.polyfit(x, y, 1): slope and intercept of the line of least squares
Polyfit(x, y) ==
    LET n   == Len(x)
        sx  == SumSeq(x)
        sy  == SumSeq(y)
        sxx == SumSeq([i \in DOMAIN x |-> x[i] * x[i]])
        sxy == SumSeq([i \in DOMAIN x |-> x[i] * y[i]])
        slope == QNorm(n * sxy - sx * sy, n * sxx - sx * sx)
    IN  <<slope, QDiv(QSub(ToQ(sy), QMul(slope, ToQ(sx))), ToQ(n))>>

\* np.argsort: the orders of the indices in which the values do not
\* decrease; which of them it is when values are equal is not fixed
ArgSorts(values) ==
    { idxs \in [DOMAIN values -> DOMAIN values] :
        /\ \A i, j \in DOMAIN values : i # j => idxs[i] # idxs[j]
        /\ \A k \in 1..(Len(values) - 1) : QLe(values[idxs[k]], values[idxs[k + 1]]) }

\* lines 1182-1186: position[0], the easting of the station projected onto
\* the profile: np.dot(profile_vector, station_vector) * profile_vector with
\* profile_vector (1, slope) of length 1
PositionEast(east, north, profile_line) ==
    LET slope == profile_line[1]
        station_vector == <<ToQ(east), QSub(ToQ(north), profile_line[2])>>
        dot == QAdd(station_vector[1], QMul(slope, station_vector[2]))
    IN  QDiv(dot, QAdd(ToQ(1), QMul(slope, slope)))

\* line 1185: np.linalg.norm(np.array(a, b)) with two numpy numbers: the
\* second argument of np.array is the dtype, and of a numpy number its dtype
\* is taken; the array is the number a alone and its norm |a|
LoOffset(east, north, profile_line, lo_easts) ==
    QAbs(QSub(PositionEast(east, north, profile_line), ToQ(Min(Range(lo_easts)))))

\* Data.generate_profile with the files of edilist: the attributes it
\* leaves, for each order np.argsort may give.  What is read of a file but
\* its place is named by the file's station; the azimuth is
\* arctan(slope) * 180 / pi, zero when the slope is.
GenerateProfile(edilist) ==
    LET stations     == [i \in DOMAIN edilist |-> StationNames[i]]
        lo_easts     == [i \in DOMAIN edilist |-> edilist[i].east]
        lo_norths    == [i \in DOMAIN edilist |-> edilist[i].north]
        profile_line == Polyfit(lo_easts, lo_norths)
        lo_offsets   == [i \in DOMAIN edilist |->
                           LoOffset(lo_easts[i], lo_norths[i], profile_line, lo_easts)]
        sorts == IF profile_line[1] = QZero
                 THEN ArgSorts([i \in DOMAIN edilist |-> ToQ(lo_norths[i])])
                 ELSE ArgSorts(lo_offsets)
        least(offsets) == CHOOSE a \in Range(offsets) : \A b \in Range(offsets) : QLe(a, b)
    IN  { [ profile             |-> profile_line,
            stations            |-> [k \in DOMAIN edilist |-> stations[profile_idxs[k]]],
            stationlocations    |-> [k \in DOMAIN edilist |->
                                       QSub(lo_offsets[profile_idxs[k]], least(lo_offsets))],
            norths              |-> [k \in DOMAIN edilist |-> lo_norths[profile_idxs[k]]],
            easts               |-> [k \in DOMAIN edilist |-> lo_easts[profile_idxs[k]]],
            Z                   |-> [k \in DOMAIN edilist |-> <<"Z", stations[profile_idxs[k]]>>],
            station_coords      |-> [k \in DOMAIN edilist |-> <<"coords", stations[profile_idxs[k]]>>],
            station_frequencies |-> [k \in DOMAIN edilist |-> <<"freq", stations[profile_idxs[k]]>>] ] :
          profile_idxs \in sorts }

\* ------------------------------------------------------------------ actions

\* the files an MT object is read from: the file of 3 frequencies with any
\* of the gaps, the file of 5 frequencies, and the files without tipper: the
\* tipper absent, or zero at every frequency
Files ==
    {[Z |-> FileZ(gaps), Tipper |-> FileTipper(gaps)] : gaps \in GapChoices}
        \cup {[Z |-> LongFileZ, Tipper |-> LongFileTipper]}
        \cup {[Z |-> FileZ(<<>>), Tipper |-> EmptyTipper],
              [Z |-> LongFileZ, Tipper |-> EmptyTipper],
              [Z |-> FileZ(<<>>), Tipper |-> ZeroTipper]}

Init ==
    \E file \in Files :
        /\ mt = [Z |-> file.Z, Tipper |-> file.Tipper, rotation_angle |-> 0]
        /\ orig = file
        /\ thetas = <<>>
        /\ last = [op |-> "read"]
        /\ loc = NoLocation
        /\ fs = [save_dir |-> Cwd, files |-> {}]

SetRotationAngle ==
    \E theta_r \in Angles :
        /\ Len(thetas) < MaxRotations
        /\ mt' = RotationAngleSetter(mt, theta_r)
        /\ thetas' = Append(thetas, theta_r)
        /\ last' = [op |-> "rotation_angle", theta_r |-> theta_r]
        /\ UNCHANGED <<orig, loc, fs>>

\* a call of interpolate with an array of the caller's
CallInterpolate ==
    \E new_freq_array \in NewFreqArrays, bounds_error \in BOOLEAN,
       period_buffer \in PeriodBuffers :
        \* interpolate changes nothing of the object: a second call in a row
        \* would be made on the same object
        /\ last.op # "interpolate"
        /\ last' = [op |-> "interpolate",
                    new_freq_array |-> new_freq_array,
                    bounds_error   |-> bounds_error,
                    period_buffer  |-> period_buffer,
                    result |-> Interpolate(mt, new_freq_array, bounds_error, period_buffer),
                    arrays |-> InterpolateArrays(<<"arg", "new_freq_array">>)]
        /\ mt' = SelfAfterInterpolate(mt, new_freq_array, bounds_error, period_buffer)
        /\ UNCHANGED <<orig, thetas, loc, fs>>

\* interpolation onto the object's own frequency array
CallInterpolateOwn ==
    \E bounds_error \in BOOLEAN, period_buffer \in PeriodBuffers :
        /\ last.op # "interpolate"
        /\ last' = [op |-> "interpolate",
                    new_freq_array |-> mt.Z.freq,
                    bounds_error   |-> bounds_error,
                    period_buffer  |-> period_buffer,
                    result |-> Interpolate(mt, mt.Z.freq, bounds_error, period_buffer),
                    arrays |-> InterpolateArrays(<<"own", "Z.freq">>)]
        /\ mt' = SelfAfterInterpolate(mt, mt.Z.freq, bounds_error, period_buffer)
        /\ UNCHANGED <<orig, thetas, loc, fs>>

\* a call of interpolate with a list of frequencies
CallInterpolateList ==
    \E new_freq_array \in NewFreqLists, bounds_error \in BOOLEAN,
       period_buffer \in {NoBuffer, <<15>>} :
        /\ last.op # "interpolate"
        /\ last' = [op |-> "interpolate",
                    new_freq_array |-> new_freq_array,
                    bounds_error   |-> bounds_error,
                    period_buffer  |-> period_buffer,
                    result |-> Interpolate(mt, new_freq_array, bounds_error, period_buffer),
                    arrays |-> InterpolateArrays(<<"list", "new_freq_array">>)]
        /\ mt' = SelfAfterInterpolate(mt, new_freq_array, bounds_error, period_buffer)
        /\ UNCHANGED <<orig, thetas, loc, fs>>

CallRemoveStaticShift ==
    \E ss_x \in SSFactors, ss_y \in SSFactors :
        /\ last.op # "remove_static_shift"
        /\ last' = [op |-> "remove_static_shift", ss_x |-> ss_x, ss_y |-> ss_y,
                    result |-> RemoveStaticShift(mt, ss_x, ss_y)]
        /\ mt' = RemoveStaticShift(mt, ss_x, ss_y).self
        /\ UNCHANGED <<orig, thetas, loc, fs>>

CallRemoveDistortion ==
    \E num_freq \in NumFreqs, D \in DEstimates, in_place \in BOOLEAN :
        /\ last.op # "remove_distortion"
        /\ last' = [op |-> "remove_distortion", num_freq |-> num_freq,
                    result |-> RemoveDistortion(mt, num_freq, D, in_place)]
        /\ mt' = RemoveDistortion(mt, num_freq, D, in_place).self
        /\ UNCHANGED <<orig, thetas, loc, fs>>

SetLatitude ==
    \E latitude \in Latitudes :
        /\ loc' = LatitudeSetter(loc, latitude).self
        /\ last' = [op |-> "latitude", value |-> latitude,
                    raised |-> LatitudeSetter(loc, latitude).raised]
        /\ UNCHANGED <<mt, orig, thetas, fs>>

SetLongitude ==
    \E longitude \in Longitudes :
        /\ loc' = LongitudeSetter(loc, longitude).self
        /\ last' = [op |-> "longitude", value |-> longitude,
                    raised |-> LongitudeSetter(loc, longitude).raised]
        /\ UNCHANGED <<mt, orig, thetas, fs>>

SetEast ==
    \E easting \in Eastings :
        /\ loc' = EastSetter(loc, easting).self
        /\ last' = [op |-> "east", value |-> easting,
                    raised |-> EastSetter(loc, easting).raised]
        /\ UNCHANGED <<mt, orig, thetas, fs>>

SetNorth ==
    \E northing \in Northings :
        /\ loc' = NorthSetter(loc, northing).self
        /\ last' = [op |-> "north", value |-> northing,
                    raised |-> NorthSetter(loc, northing).raised]
        /\ UNCHANGED <<mt, orig, thetas, fs>>

SetUtmZone ==
    \E utm_zone \in UtmZones :
        /\ loc' = UtmZoneSetter(loc, utm_zone).self
        /\ last' = [op |-> "utm_zone", zone |-> utm_zone,
                    raised |-> UtmZoneSetter(loc, utm_zone).raised]
        /\ UNCHANGED <<mt, orig, thetas, fs>>

NextLocation == SetLatitude \/ SetLongitude \/ SetEast \/ SetNorth \/ SetUtmZone

\* the construction of another Station
CallMTInit ==
    \E fn \in {<<>>} \cup {<<name>> : name \in FileNames}, kwargs \in KwargChoices :
        /\ last' = [op |-> "__init__", fn |-> fn, kwargs |-> kwargs,
                    result |-> MTInit(fn, kwargs)]
        /\ UNCHANGED <<mt, orig, thetas, loc, fs>>

NextConstruct == CallMTInit

SpecConstruct == Init /\ [][NextConstruct]_vars

\* the Station of one file, for the calls that do not depend on the data
InitOneFile == Init /\ orig = [Z |-> LongFileZ, Tipper |-> LongFileTipper]

\* a call of gis_tools.project_point_ll2utm with a zone name, by either
\* interpreter
CallProjectLL2UTM ==
    \E lat \in Latitudes, lon \in Longitudes, utm_zone \in ZoneNames, python \in Pythons :
        /\ last' = [op |-> "project_point_ll2utm", lat |-> lat, lon |-> lon,
                    utm_zone |-> utm_zone, python |-> python,
                    result |-> ProjectPointLL2UTMInZone(lat, lon, utm_zone, python)]
        /\ UNCHANGED <<mt, orig, thetas, loc, fs>>

\* a call of gis_tools.project_point_utm2ll
CallProjectUTM2LL ==
    \E easting \in Eastings, northing \in Northings \cup {67}, utm_zone \in ZoneNames :
        /\ last' = [op |-> "project_point_utm2ll", easting |-> easting,
                    northing |-> northing, utm_zone |-> utm_zone,
                    result |-> ProjectPointUTM2LL(easting, northing, utm_zone)]
        /\ UNCHANGED <<mt, orig, thetas, loc, fs>>

NextProject == CallProjectLL2UTM \/ CallProjectUTM2LL

SpecProject == InitOneFile /\ [][NextProject]_vars

\* generate_profile on an Occam2D Data object with a list of files: Data's
\* __init__ calls it, once for an object
CallGenerateProfile ==
    /\ last.op # "generate_profile"
    /\ UNCHANGED <<mt, orig, thetas, loc, fs>>
    /\ \E edilist \in EdiLists :
           \E data \in GenerateProfile(edilist) :
               last' = [op |-> "generate_profile", edilist |-> edilist, data |-> data]

NextOccam == CallGenerateProfile

SpecOccam == InitOneFile /\ [][NextOccam]_vars

CallWriteMTFile ==
    \E save_dir \in {<<>>} \cup {<<dir>> : dir \in SaveDirs},
       fn_basename \in {<<>>} \cup {<<name>> : name \in FnBasenames},
       file_type \in FileTypes :
        LET self == [station |-> Station, save_dir |-> fs.save_dir]
            call == WriteMTFile(self, save_dir, fn_basename, file_type)
        IN  /\ Cardinality(fs.files) < MaxWrites
            /\ fs' = [save_dir |-> call.save_dir, files |-> fs.files \cup call.written]
            /\ last' = [op |-> "write_mt_file", save_dir |-> save_dir,
                        fn_basename |-> fn_basename, file_type |-> file_type,
                        raised |-> call.raised]
            /\ UNCHANGED <<mt, orig, thetas, loc>>

NextWrite == CallWriteMTFile

\* what is written does not depend on the data: the calls are followed on
\* the Station of one file
SpecWrite == InitOneFile /\ [][NextWrite]_vars

SpecLocation == InitOneFile /\ [][NextLocation]_vars

NextRotate == SetRotationAngle

SpecRotate == Init /\ [][NextRotate]_vars

NextInterpolate == CallInterpolate \/ CallInterpolateOwn

SpecInterpolate == Init /\ [][NextInterpolate]_vars

NextStaticShift == CallRemoveStaticShift

SpecStaticShift == Init /\ [][NextStaticShift]_vars

NextDistortion == CallRemoveDistortion

SpecDistortion == Init /\ [][NextDistortion]_vars

\* the calls that return new objects, one after another, no call twice in a
\* row
NextTransform ==
    \/ CallInterpolateOwn
    \/ CallInterpolateList
    \/ CallRemoveStaticShift
    \/ CallRemoveDistortion

SpecTransform == Init /\ [][NextTransform]_vars

Next ==
    \/ SetRotationAngle
    \/ CallInterpolate
    \/ CallInterpolateOwn
    \/ CallInterpolateList
    \/ CallRemoveStaticShift
    \/ CallRemoveDistortion
    \/ SetLatitude
    \/ SetLongitude
    \/ SetEast
    \/ SetNorth
    \/ SetUtmZone
    \/ CallMTInit
    \/ CallWriteMTFile
    \/ CallProjectLL2UTM
    \/ CallProjectUTM2LL
    \/ CallGenerateProfile

Spec == Init /\ [][Next]_vars

\* ------------------------------------------------------- claims: rotation

\* the object as it was read, before any assignment to rotation_angle
Unrotated == [Z |-> orig.Z, Tipper |-> orig.Tipper, rotation_angle |-> 0]

\* a step of the model is an assignment to rotation_angle
IsAssignment == thetas' # thetas
Assigned == thetas'[Len(thetas')]

\* C1: assigning rotation_angle the value theta it was last assigned leaves
\* the values of Z and of the Tipper as they were before the second assignment.
C1_SecondAssignmentIsNoOp ==
    [][ (IsAssignment /\ Len(thetas) >= 1 /\ Assigned = thetas[Len(thetas)])
            => /\ mt'.Z.z = mt.Z.z
               /\ mt'.Tipper.tipper = mt.Tipper.tipper ]_vars

\* C2: from the data as read, two or more assignments theta1, theta2, ...
\* leave the same Z and Tipper values as the single assignment of
\* theta1 + theta2 + ... does.
C2_RotationComposition ==
    Len(thetas) >= 2 =>
        /\ mt.Z.z = RotationAngleSetter(Unrotated, SumSeq(thetas)).Z.z
        /\ mt.Tipper.tipper = RotationAngleSetter(Unrotated, SumSeq(thetas)).Tipper.tipper

\* two assignments of angles that are not 0, the second of which turned the
\* tipper, with a sum of at least 360
C2_Witness ==
    /\ Len(thetas) = 2
    /\ thetas[1] = 270
    /\ thetas[2] = 180
    /\ mt.Tipper.tipper # orig.Tipper.tipper
    /\ mt.Z.z # orig.Z.z

\* C3: the angle stored on the object is the rotation that Z and the Tipper
\* have received since they were read: their values are the values read,
\* rotated by rotation_angle.
C3_StoredAngleIsAppliedTotal ==
    /\ mt.Z.z = ZRotate(orig.Z, mt.rotation_angle).z
    /\ mt.Tipper.tipper = TipperRotate(orig.Tipper, mt.rotation_angle).tipper
    /\ (mt.Z.rotation_angle - mt.rotation_angle) % 360 = 0
    /\ (mt.Tipper.rotation_angle - mt.rotation_angle) % 360 = 0

\* C4: every assignment rotates Z and the Tipper by one and the same angle,
\* the difference between the angle assigned and the angle stored before.
C4_RotatesByDelta ==
    [][ IsAssignment =>
            /\ mt'.Z.z = ZRotate(mt.Z, Assigned - mt.rotation_angle).z
            /\ mt'.Tipper.tipper
                 = TipperRotate(mt.Tipper, Assigned - mt.rotation_angle).tipper ]_vars

\* -------------------------------------------------- claims: interpolation

IsInterpolate == last.op = "interpolate"
Res == last.result
NewF == last.new_freq_array

\* the period buffer a call works with, in tenths (0 without one)
EffectiveBuffer ==
    IF last.period_buffer = NoBuffer THEN 0
    ELSE IF last.period_buffer[1] < 10 THEN last.period_buffer[1] + 10
    ELSE last.period_buffer[1]

\* the frequencies at which a component holds data
ZSampleIdx(c) == {k \in DOMAIN mt.Z.z : mt.Z.z[k][c] # <<0, 0>>}
TSampleIdx(j) == {k \in DOMAIN mt.Tipper.tipper : mt.Tipper.tipper[k][j] # <<0, 0>>}
ZSampleFreqs(c) == {mt.Z.freq[k] : k \in ZSampleIdx(c)}
TSampleFreqs(j) == {mt.Tipper.freq[k] : k \in TSampleIdx(j)}

\* x lies within [min, max] of the set F of frequencies
Within(x, F) == (\E a \in F : a <= x) /\ (\E b \in F : x <= b)

\* every frequency of F is at a ratio of at least the period buffer from x
BufferExcludes(x, F) ==
    \A a \in F : 10 * (IF a > x THEN a ELSE x) >= EffectiveBuffer * (IF a > x THEN x ELSE a)

BelowSource(n) == \A k \in DOMAIN mt.Z.freq : NewF[n] < mt.Z.freq[k]
AboveSource(n) == \A k \in DOMAIN mt.Z.freq : NewF[n] > mt.Z.freq[k]
OutOfRange(n) == BelowSource(n) \/ AboveSource(n)

ZIsZeroAt(n, c) == Res.new_Z.z[n][c] = CZero /\ Res.new_Z.z_err[n][c] = QZero
TIsZeroAt(n, j) ==
    Res.new_Tipper.tipper[n][j] = CZero /\ Res.new_Tipper.tipper_err[n][j] = QZero

\* the value on the line between the samples of a Z component that bracket
\* the n-th new frequency
ZOnTheLine(n, c) ==
    LET idx == AscSeq(ZSampleIdx(c))
        f   == [i \in DOMAIN idx |-> mt.Z.freq[idx[i]]]
        re  == [i \in DOMAIN idx |-> mt.Z.z[idx[i]][c][1]]
        im  == [i \in DOMAIN idx |-> mt.Z.z[idx[i]][c][2]]
        er  == [i \in DOMAIN idx |-> mt.Z.z_err[idx[i]][c]]
    IN  /\ Res.new_Z.z[n][c] = <<Interp1d(f, re, NewF[n]), Interp1d(f, im, NewF[n])>>
        /\ Res.new_Z.z_err[n][c] = Interp1d(f, er, NewF[n])

\* C5: with bounds_error true, interpolate raises the error of the bounds
\* check whenever a new frequency is below the least or above the greatest
\* frequency of Z, and does not raise it when every new frequency lies within
\* them, the end points included.
C5_BoundsError ==
    (IsInterpolate /\ last.bounds_error) =>
        /\ (\E n \in DOMAIN NewF : OutOfRange(n))
              => (Res.raised = "ValueError" /\ Res.why = "bounds")
        /\ (\A n \in DOMAIN NewF : ~ OutOfRange(n)) => Res.why # "bounds"

\* a call with bounds_error true, one new frequency on an end point and one
\* above the range, that raised
C5_Witness ==
    /\ IsInterpolate
    /\ last.bounds_error
    /\ \E n \in DOMAIN NewF : AboveSource(n)
    /\ \E n \in DOMAIN NewF : NewF[n] = mt.Z.freq[1]
    /\ Res.raised = "ValueError"

\* a call with bounds_error true whose new frequencies are the two end points
\* of the range, that returned
C5_WitnessInRange ==
    /\ IsInterpolate
    /\ last.bounds_error
    /\ NewF = <<10, 1000>>
    /\ Res.raised = None

\* C6: with bounds_error false, interpolate raises nothing on account of new
\* frequencies outside the range of the data - neither the error of the
\* bounds check nor an error at a component none of whose data brackets any
\* new frequency - and what it returns is zero, value and error, in every
\* component at every new frequency outside the range of Z's frequencies.
C6_NoRaiseWithoutBoundsError ==
    (IsInterpolate /\ ~ last.bounds_error) =>
        /\ Res.why # "bounds"
        /\ ~ ( /\ Res.why = "index"
               /\ \A n \in DOMAIN NewF : ~ Within(NewF[n], ZSampleFreqs(Res.at)) )
        /\ Res.raised = None =>
              \A n \in DOMAIN NewF : OutOfRange(n) =>
                  /\ \A c \in ZComps : ZIsZeroAt(n, c)
                  /\ \A j \in TComps : TIsZeroAt(n, j)

\* C7: when the bounds check lets the call pass, a component with fewer than
\* 2 non-zero samples does not make interpolate fail, and is zero at every
\* new frequency in what is returned.
C7_GapSkip ==
    (IsInterpolate /\ Res.why # "bounds") =>
        /\ \A c \in ZComps : Cardinality(ZSampleIdx(c)) < 2 =>
              /\ ~ (Res.why = "interp1d" /\ Res.at = c)
              /\ Res.raised = None => \A n \in DOMAIN NewF : ZIsZeroAt(n, c)
        /\ \A j \in TComps : Cardinality(TSampleIdx(j)) < 2 =>
              (Res.raised = None => \A n \in DOMAIN NewF : TIsZeroAt(n, j))

\* C8: with a period buffer, a call that the bounds check lets pass and in
\* which every impedance component has data to interpolate returns; in a
\* component with 2 or more samples, a new frequency within the component's
\* range is zero when every sample of the component is at a ratio of at least
\* the buffer from it, and is on the line between the bracketing samples
\* otherwise.
C8_PeriodBufferExclusion ==
    (IsInterpolate /\ last.period_buffer # NoBuffer
                   /\ Res.why # "bounds" /\ Res.why # "interp1d") =>
        /\ Res.raised = None
        /\ \A c \in ZComps : \A n \in DOMAIN NewF :
              (Cardinality(ZSampleIdx(c)) >= 2 /\ Within(NewF[n], ZSampleFreqs(c))) =>
                  IF BufferExcludes(NewF[n], ZSampleFreqs(c))
                  THEN ZIsZeroAt(n, c)
                  ELSE ZOnTheLine(n, c)

\* C9: with a period buffer, in what interpolate returns a tipper component
\* with 2 or more samples is zero at every new frequency within its range
\* from which every sample of the component is at a ratio of at least the
\* buffer.
C9_TipperPeriodBuffer ==
    (IsInterpolate /\ last.period_buffer # NoBuffer /\ Res.raised = None) =>
        \A j \in TComps : \A n \in DOMAIN NewF :
            ( /\ Cardinality(TSampleIdx(j)) >= 2
              /\ Within(NewF[n], TSampleFreqs(j))
              /\ BufferExcludes(NewF[n], TSampleFreqs(j)) ) => TIsZeroAt(n, j)

\* C10: interpolation onto the object's own frequency array, without a period
\* buffer or with one greater than 1, returns, and what it returns holds the
\* value and the error of the object wherever a component with 2 or more
\* samples holds data.  (A component with one sample is left to C7.)
C10_InterpolationIdentity ==
    (IsInterpolate /\ NewF = mt.Z.freq
                   /\ (last.period_buffer = NoBuffer \/ EffectiveBuffer > 10)) =>
        /\ Res.raised = None
        /\ \A c \in ZComps : \A k \in ZSampleIdx(c) :
              Cardinality(ZSampleIdx(c)) >= 2 =>
                  /\ Res.new_Z.z[k][c] = ToCQ(mt.Z.z[k][c])
                  /\ Res.new_Z.z_err[k][c] = ToQ(mt.Z.z_err[k][c])
        /\ \A j \in TComps : \A k \in TSampleIdx(j) :
              Cardinality(TSampleIdx(j)) >= 2 =>
                  /\ Res.new_Tipper.tipper[k][j] = ToCQ(mt.Tipper.tipper[k][j])
                  /\ Res.new_Tipper.tipper_err[k][j] = ToQ(mt.Tipper.tipper_err[k][j])

\* ------------------------------------------- claims: what interpolate returns

\* the impedance loop writes component c at the n-th new frequency: c has
\* data, the frequency is within the range of c's data and, with a period
\* buffer, some sample of c is at a ratio below the buffer from it
ZWrittenAt(n, c) ==
    /\ ZSampleIdx(c) # {}
    /\ Within(NewF[n], ZSampleFreqs(c))
    /\ (last.period_buffer = NoBuffer \/ ~ BufferExcludes(NewF[n], ZSampleFreqs(c)))

\* the tipper loop writes component j at the n-th new frequency
TWrittenAt(n, j) ==
    /\ Cardinality(TSampleIdx(j)) >= 2
    /\ Within(NewF[n], TSampleFreqs(j))

\* C11: what a call of interpolate that raises nothing returns is a Z and a
\* Tipper whose values, errors and frequencies are as many as the new
\* frequencies, whose frequencies are the new frequencies in the order given,
\* and that are zero, value and error, in every component at every new
\* frequency that the component's interpolation did not write.
C11_ReturnedShape ==
    (IsInterpolate /\ Res.raised = None) =>
        /\ Len(Res.new_Z.z) = Len(NewF)
        /\ Len(Res.new_Z.z_err) = Len(NewF)
        /\ Res.new_Z.freq = NewF
        /\ Len(Res.new_Tipper.tipper) = Len(NewF)
        /\ Len(Res.new_Tipper.tipper_err) = Len(NewF)
        /\ Res.new_Tipper.freq = NewF
        /\ \A n \in DOMAIN NewF :
              /\ \A c \in ZComps : ~ ZWrittenAt(n, c) => ZIsZeroAt(n, c)
              /\ \A j \in TComps : ~ TWrittenAt(n, j) => TIsZeroAt(n, j)

\* a call that returned, on new frequencies in ascending order (the file's
\* are descending), the first below the range of the data and left zero, the
\* second written
C11_Witness ==
    /\ IsInterpolate
    /\ Res.raised = None
    /\ NewF = <<1, 1000>>
    /\ \A c \in ZComps : ~ ZWrittenAt(1, c) /\ ZIsZeroAt(1, c)
    /\ \E c \in ZComps : ZWrittenAt(2, c) /\ ~ ZIsZeroAt(2, c)
    /\ \E j \in TComps : TWrittenAt(2, j) /\ ~ TIsZeroAt(2, j)

\* the value on the line between the samples of a Tipper component that
\* bracket the n-th new frequency
TOnTheLine(n, j) ==
    LET idx == AscSeq(TSampleIdx(j))
        f   == [i \in DOMAIN idx |-> mt.Tipper.freq[idx[i]]]
        re  == [i \in DOMAIN idx |-> mt.Tipper.tipper[idx[i]][j][1]]
        im  == [i \in DOMAIN idx |-> mt.Tipper.tipper[idx[i]][j][2]]
        er  == [i \in DOMAIN idx |-> mt.Tipper.tipper_err[idx[i]][j]]
    IN  /\ Res.new_Tipper.tipper[n][j] = <<Interp1d(f, re, NewF[n]), Interp1d(f, im, NewF[n])>>
        /\ Res.new_Tipper.tipper_err[n][j] = Interp1d(f, er, NewF[n])

\* C12: a call that the bounds check lets pass returns, and in what it
\* returns every component is decided by its own samples alone: it is zero
\* at every new frequency outside [min, max] of the frequencies at which the
\* component itself holds data, whatever the other components hold there, and
\* where it is written it is on the line between its own bracketing samples.
C12_PerComponentBounds ==
    (IsInterpolate /\ Res.why # "bounds") =>
        /\ Res.raised = None
        /\ \A n \in DOMAIN NewF :
              /\ \A c \in ZComps :
                    /\ ~ Within(NewF[n], ZSampleFreqs(c)) => ZIsZeroAt(n, c)
                    /\ ZWrittenAt(n, c) => ZOnTheLine(n, c)
              /\ \A j \in TComps :
                    /\ ~ Within(NewF[n], TSampleFreqs(j)) => TIsZeroAt(n, j)
                    /\ TWrittenAt(n, j) => TOnTheLine(n, j)

\* C13: a call of interpolate with a period_buffer v, 0 < v < 1, ends as the
\* call with the period_buffer 1 + v and the same other arguments does: it
\* returns the same Z and Tipper, and raises nothing that the call with 1 + v
\* does not raise.
C13_PeriodBufferBelowOne ==
    ( /\ IsInterpolate
      /\ last.period_buffer # NoBuffer
      /\ 0 < last.period_buffer[1]
      /\ last.period_buffer[1] < 10 ) =>
        Res = Interpolate(mt, NewF, last.bounds_error, <<last.period_buffer[1] + 10>>)

\* a call with the period_buffer 0.5 that returned, in which the buffer 1.5
\* left a component zero at one new frequency within the range of its data
\* and let it be written at another
C13_Witness ==
    /\ IsInterpolate
    /\ last.period_buffer = <<5>>
    /\ Res.raised = None
    /\ \E c \in ZComps : \E n, m \in DOMAIN NewF :
          /\ Within(NewF[n], ZSampleFreqs(c))
          /\ BufferExcludes(NewF[n], ZSampleFreqs(c))
          /\ ZIsZeroAt(n, c)
          /\ ZWrittenAt(m, c)
          /\ ~ ZIsZeroAt(m, c)

\* ------------------------------------- claims: errors and side effects

\* the last call was one of interpolate or remove_distortion and raised
FailedCall ==
    /\ last.op \in {"interpolate", "remove_distortion"}
    /\ last.result.raised # None

\* the last call handed nothing back
NothingReturned ==
    IF last.op = "interpolate"
    THEN last.result.new_Z = None /\ last.result.new_Tipper = None
    ELSE last.result.D = None /\ last.result.new_z_object = None

\* C14: a call of interpolate or of remove_distortion that fails raises its
\* error and returns nothing, no partly filled Z or Tipper, and leaves the
\* object's Z, Tipper and rotation angle as they were before the call.
C14_NoPartialResults ==
    [][ FailedCall' => (NothingReturned' /\ mt' = mt) ]_vars

\* interpolate failed inside the impedance loop, after the new arrays were
\* allocated, and the object is as it was read
C14_Witness ==
    /\ last.op = "interpolate"
    /\ last.result.raised = "ValueError"
    /\ last.result.why = "interp1d"
    /\ last.result.at # <<0, 0>>
    /\ mt.Z = orig.Z
    /\ mt.Tipper = orig.Tipper

\* the last call was one of the calls that return new objects
TransformCall ==
    last.op \in {"interpolate", "remove_static_shift", "remove_distortion"}

\* the arrays of the objects that the last call returned
ReturnedArrays ==
    IF last.op = "interpolate"
    THEN { last.arrays.Z.val, last.arrays.Z.err, last.arrays.Z.freq,
           last.arrays.Tipper.val, last.arrays.Tipper.err, last.arrays.Tipper.freq }
    ELSE { last.result.arrays.val, last.result.arrays.err, last.result.arrays.freq }

\* C15: every call of interpolate, remove_static_shift or remove_distortion,
\* after whatever calls came before it, leaves the object's Z and Tipper -
\* values, errors, frequencies - and its rotation angle as they were, and no
\* array of what it returns is an array of the object's own Z or Tipper.
C15_SideEffectFree ==
    [][ TransformCall' =>
          /\ mt' = mt
          /\ last'.result.raised = None => ReturnedArrays' \cap OwnArrays = {} ]_vars

\* ------------------------------------------------- claims: static shift

IsRemoveStaticShift == last.op = "remove_static_shift"

\* C16: remove_static_shift with ss_x = 1 and ss_y = 1 returns a Z whose
\* value is the value of the object's Z at every frequency, in every
\* component.
C16_StaticShiftIdentity ==
    (IsRemoveStaticShift /\ last.ss_x = 1 /\ last.ss_y = 1) =>
        /\ last.result.raised = None
        /\ DOMAIN last.result.new_z_obj.z = DOMAIN mt.Z.z
        /\ \A k \in DOMAIN mt.Z.z : \A c \in ZComps :
              last.result.new_z_obj.z[k][c] = ToCQ(mt.Z.z[k][c])

\* the call with factors 1 and 1 returned, on a Z with a component that has
\* data at one frequency and none at another
C16_Witness ==
    /\ IsRemoveStaticShift
    /\ last.ss_x = 1
    /\ last.ss_y = 1
    /\ last.result.raised = None
    /\ \E c \in ZComps : \E k, l \in DOMAIN mt.Z.z :
          mt.Z.z[k][c] = <<0, 0>> /\ mt.Z.z[l][c] # <<0, 0>>

\* C17: the Z that remove_static_shift returns has the errors and the
\* frequencies of the object's Z, as many and in the same order, whatever
\* the factors; the factors scale the values alone.
C17_StaticShiftKeepsErrors ==
    (IsRemoveStaticShift /\ last.result.raised = None) =>
        /\ last.result.new_z_obj.z_err = mt.Z.z_err
        /\ last.result.new_z_obj.freq = mt.Z.freq
        /\ Len(last.result.new_z_obj.z) = Len(mt.Z.freq)

\* the call with factors 4 and 9 returned a Z with other values and the same
\* errors
C17_Witness ==
    /\ IsRemoveStaticShift
    /\ last.ss_x = 4
    /\ last.ss_y = 9
    /\ last.result.raised = None
    /\ last.result.new_z_obj.z[1][<<0, 1>>] = CDiv(mt.Z.z[1][<<0, 1>>], 2)
    /\ last.result.new_z_obj.z[1][<<1, 0>>] = CDiv(mt.Z.z[1][<<1, 0>>], 3)
    /\ last.result.new_z_obj.z[1][<<0, 1>>] # ToCQ(mt.Z.z[1][<<0, 1>>])
    /\ last.result.new_z_obj.z_err = mt.Z.z_err

\* C18: remove_static_shift with ss_x <= 0 or ss_y <= 0 raises the error of
\* an invalid parameter and returns no Z.
C18_StaticShiftRefusesNonPositive ==
    (IsRemoveStaticShift /\ (last.ss_x <= 0 \/ last.ss_y <= 0)) =>
        /\ last.result.raised = "InvalidParameterError"
        /\ last.result.new_z_obj = None

\* the call with a valid ss_x and ss_y = 0 raised
C18_Witness ==
    /\ IsRemoveStaticShift
    /\ last.ss_x = 4
    /\ last.ss_y = 0
    /\ last.result.raised = "InvalidParameterError"

\* --------------------------------------------------- claims: distortion

IsRemoveDistortion == last.op = "remove_distortion"

\* C19: remove_distortion with a num_freq that is greater than the number of
\* frequencies of Z, or less than 4, raises the error of an invalid
\* parameter and returns nothing: no D and no Z fitted with another num_freq.
C19_NumFreqOutOfRange ==
    ( /\ IsRemoveDistortion
      /\ last.num_freq # NoNumFreq
      /\ (last.num_freq[1] > Len(mt.Z.freq) \/ last.num_freq[1] < 4) ) =>
        /\ last.result.raised = "InvalidParameterError"
        /\ last.result.D = None
        /\ last.result.new_z_object = None

\* on the file of 5 frequencies the call with num_freq = 6 raised
C19_Witness ==
    /\ IsRemoveDistortion
    /\ Len(mt.Z.freq) = 5
    /\ last.num_freq = <<6>>
    /\ last.result.raised = "InvalidParameterError"

\* on the file of 5 frequencies the call with num_freq = 4 returned
C19_WitnessInRange ==
    /\ IsRemoveDistortion
    /\ Len(mt.Z.freq) = 5
    /\ last.num_freq = <<4>>
    /\ last.result.raised = None

\* ----------------------------------------------------- claims: location

\* C20: after an assignment to latitude or to longitude that raised nothing,
\* with both of them set, east, north and utm_zone are the projection of the
\* latitude and longitude the object now holds.
C20_LatLonRecomputesUtm ==
    ( /\ last.op \in {"latitude", "longitude"}
      /\ last.raised = None
      /\ loc.latitude # <<>>
      /\ loc.longitude # <<>> ) =>
        /\ loc.east # <<>> /\ loc.north # <<>> /\ loc.utm_zone # <<>>
        /\ loc.east = ProjectPointLL2UTM(loc.latitude, loc.longitude).easting
        /\ loc.north = ProjectPointLL2UTM(loc.latitude, loc.longitude).northing
        /\ loc.utm_zone = ProjectPointLL2UTM(loc.latitude, loc.longitude).utm_zone

\* the latitude was assigned with the longitude set, a point of the southern
\* hemisphere: zone, easting and northing are those of the point
C20_Witness ==
    /\ last.op = "latitude"
    /\ last.raised = None
    /\ loc.latitude = <<-33>>
    /\ loc.longitude = <<150>>
    /\ loc.utm_zone = << <<"5", "6", "H">> >>
    /\ loc.east = <<2>>
    /\ loc.north = <<67>>

\* C21: after an assignment to east, to north or to utm_zone that raised
\* nothing, with all three of them set, the latitude and the longitude the
\* accessors return are the inverse projection of (east, north, utm_zone),
\* whichever of the three was assigned.
C21_UtmRecomputesLatLon ==
    ( /\ last.op \in {"east", "north", "utm_zone"}
      /\ last.raised = None
      /\ loc.east # <<>> /\ loc.north # <<>> /\ loc.utm_zone # <<>> ) =>
        /\ loc.latitude = ProjectPointUTM2LL(loc.east[1], loc.north[1], loc.utm_zone[1]).lat
        /\ loc.longitude = ProjectPointUTM2LL(loc.east[1], loc.north[1], loc.utm_zone[1]).lon

\* the assignment of the step is one to the location
IsLocationAssignment == last.op \in {"latitude", "longitude", "east", "north", "utm_zone"}

\* the error of the projection the setter calls with the values the Station
\* holds once the assigned value is stored, None when it calls none or the
\* projection raises nothing
ProjectionError(self, op) ==
    IF op \in {"latitude", "longitude"}
    THEN ProjectPointLL2UTM(self.latitude, self.longitude).raised
    ELSE IF self.east = <<>> \/ self.north = <<>> \/ self.utm_zone = <<>>
    THEN None
    ELSE ProjectPointUTM2LL(self.east[1], self.north[1], self.utm_zone[1]).raised

\* the Station but for the attribute an assignment writes
ButFor(self, op) == [self EXCEPT ![op] = <<>>]

\* C22: when the projection raises during an assignment to latitude,
\* longitude, east, north or utm_zone, the assignment raises that error, and
\* no attribute but the assigned one has changed: nothing is put in the
\* place of the result the projection did not give.
C22_ProjectionErrorPropagates ==
    [][ ( /\ IsLocationAssignment'
          /\ ProjectionError(loc', last'.op) # None ) =>
            /\ last'.raised = ProjectionError(loc', last'.op)
            /\ ButFor(loc', last'.op) = ButFor(loc, last'.op) ]_vars

\* the zone '0' was assigned to a Station with an easting and a northing:
\* the projection refused it and the assignment raised
C22_Witness ==
    /\ last.op = "utm_zone"
    /\ last.zone = <<"0">>
    /\ loc.east # <<>>
    /\ loc.north # <<>>
    /\ last.raised = "ValueError"

\* ------------------------------------------------- claims: construction

IsMTInit == last.op = "__init__"

\* C23: a Station constructed without a file is empty (no Z, no Tipper,
\* rotation angle 0, no UTM location before the keyword arguments);
\* constructed with a file name it holds the data of the file and its fn is
\* the normalized absolute path; the keyword arguments are applied after
\* the file is read, in both cases.
C23_Construction ==
    IsMTInit =>
        LET made == last.result.self
            read == [Z |-> IF last.fn = <<>> THEN EmptyZ ELSE LongFileZ,
                     Tipper |-> IF last.fn = <<>> THEN EmptyTipper ELSE LongFileTipper,
                     rotation_angle |-> 0,
                     loc |-> NoLocation,
                     _fn |-> IF last.fn = <<>> THEN <<>>
                             ELSE <<Normpath(Abspath(last.fn[1]))>>]
        IN  /\ made = SetAttrs(read, last.kwargs).self
            /\ last.result.raised = SetAttrs(read, last.kwargs).raised

\* ----------------------------------- claims: interpolation without tipper

\* the Station has no tipper data: the tipper is absent, or zero everywhere
NoTipperData ==
    \A k \in DOMAIN mt.Tipper.tipper : \A j \in TComps : mt.Tipper.tipper[k][j] = <<0, 0>>

\* the same Station with the tipper of the file without gaps
WithTipperData ==
    [mt EXCEPT !.Tipper = IF Len(mt.Z.freq) = NFreq
                          THEN [FileTipper(<<>>) EXCEPT !.rotation_angle = mt.rotation_angle]
                          ELSE [LongFileTipper EXCEPT !.rotation_angle = mt.rotation_angle]]

\* C24: a call of interpolate on a Station without tipper data ends as the
\* same call on the same impedance with tipper data ends (the missing tipper
\* makes no call fail), and what it returns is the same interpolated Z with a
\* Tipper on the new frequencies, one entry for each of them, every entry
\* and every error zero.
C24_NoTipper ==
    (IsInterpolate /\ NoTipperData) =>
        LET with == Interpolate(WithTipperData, NewF, last.bounds_error, last.period_buffer)
        IN  /\ Res.raised = with.raised
            /\ Res.why = with.why
            /\ Res.raised = None =>
                /\ Res.new_Z = with.new_Z
                /\ Res.new_Tipper.freq = NewF
                /\ Len(Res.new_Tipper.tipper) = Len(NewF)
                /\ Len(Res.new_Tipper.tipper_err) = Len(NewF)
                /\ \A n \in DOMAIN NewF : \A j \in TComps :
                      /\ Res.new_Tipper.tipper[n][j] = CZero
                      /\ Res.new_Tipper.tipper_err[n][j] = QZero

\* a Station whose tipper is absent was interpolated onto two frequencies of
\* its range, and the call returned
C24_Witness ==
    /\ IsInterpolate
    /\ mt.Tipper.tipper = <<>>
    /\ Len(NewF) = 2
    /\ Res.raised = None
    /\ \E n \in DOMAIN NewF : Res.new_Z.z[n][<<0, 1>>] # CZero

\* a Station whose tipper is zero at every frequency was interpolated
C24_WitnessZero ==
    /\ IsInterpolate
    /\ mt.Tipper.tipper # <<>>
    /\ NoTipperData
    /\ Res.raised = None

\* ----------------------------------------------------- claims: writing

IsWrite == last.op = "write_mt_file"

\* the name ends with the suffix
EndsWith(name, suffix) ==
    /\ Len(name) >= Len(suffix)
    /\ SubSeq(name, Len(name) - Len(suffix) + 1, Len(name)) = suffix

\* the name without its last n characters
DropLast(name, n) == SubSeq(name, 1, Len(name) - n)

\* the one file a call of write_mt_file wrote: its name and its format
Wrote(name, file_type) ==
    /\ last'.raised = None
    /\ fs'.files = fs.files \cup
          {[fn |-> [dir |-> fs'.save_dir, name |-> name], file_type |-> file_type]}

\* C25: write_mt_file takes the format from the extension of fn_basename: a
\* name that ends in .edi or .xml, in any case of the letters, is written in
\* that format whatever file_type says; a name without extension gets
\* file_type appended and is written in that format; without fn_basename the
\* name is '<station>.<file_type>'; any other extension raises MTError and
\* no file is written.
C25_FormatByExtension ==
    [][ IsWrite' =>
          LET name == last'.fn_basename[1]
              file_type == last'.file_type
          IN  IF last'.fn_basename = <<>>
              THEN Wrote(Station \o <<".">> \o file_type, file_type)
              ELSE IF EndsWith(Lower(name), <<".", "e", "d", "i">>)
              THEN Wrote(DropLast(name, 4) \o <<".", "e", "d", "i">>, <<"e", "d", "i">>)
              ELSE IF EndsWith(Lower(name), <<".", "x", "m", "l">>)
              THEN Wrote(DropLast(name, 4) \o <<".", "x", "m", "l">>, <<"x", "m", "l">>)
              ELSE IF \A i \in DOMAIN name : name[i] # "."
              THEN Wrote(name \o <<".">> \o Lower(file_type), file_type)
              ELSE last'.raised = "MTError" /\ fs'.files = fs.files ]_vars

\* the name 'a.EDI' was written with file_type 'xml': the file is 'a.edi', in
\* the format edi
C25_Witness ==
    /\ IsWrite
    /\ last.fn_basename = << <<"a", ".", "E", "D", "I">> >>
    /\ last.file_type = <<"x", "m", "l">>
    /\ last.raised = None
    /\ \E file \in fs.files :
          /\ file.fn.name = <<"a", ".", "e", "d", "i">>
          /\ file.file_type = <<"e", "d", "i">>

\* the name 'a.j' was refused
C25_WitnessRefused ==
    /\ IsWrite
    /\ last.fn_basename = << <<"a", ".", "j">> >>
    /\ last.raised = "MTError"

\* -------------------------------------------------- claims: zone names

\* the hemisphere a zone name '<number>N' or '<number>S' names: 1 for the
\* northern, 0 for the southern
NamedHemisphere(utm_zone) ==
    IF LowerChar(utm_zone[Len(utm_zone)]) = "n" THEN 1 ELSE 0

\* C26: project_point_ll2utm and project_point_utm2ll, given a zone name
\* '<number>N', project in the northern hemisphere of the zone, and given
\* '<number>S' in the southern; '55S' is zone 55 south.
C26_HemisphereOfZoneName ==
    ( /\ last.op \in {"project_point_ll2utm", "project_point_utm2ll"}
      /\ last.op = "project_point_ll2utm" => (Abs(last.lat) < 90 /\ Abs(last.lon) < 180) ) =>
        /\ last.result.raised = None
        /\ last.result.is_northern = <<NamedHemisphere(last.utm_zone)>>

\* ------------------------------------------- claims: no extrapolation

\* the rational q lies between the whole numbers a and b, these included
BetweenQ(q, a, b) == Min({a, b}) * q[2] <= q[1] /\ q[1] <= Max({a, b}) * q[2]

\* of the indices idx of the samples of a component at the frequencies freq:
\* the sample next below or at x, and the sample next above or at x
Below(idx, freq, x) ==
    CHOOSE k \in idx : freq[k] <= x /\ \A i \in idx : freq[i] <= x => freq[i] <= freq[k]
Above(idx, freq, x) ==
    CHOOSE k \in idx : freq[k] >= x /\ \A i \in idx : freq[i] >= x => freq[i] >= freq[k]

\* a Z component is within its samples at the n-th new frequency: real part,
\* imaginary part and error lie between those of the bracketing samples
ZBracketed(n, c) ==
    LET lo == Below(ZSampleIdx(c), mt.Z.freq, NewF[n])
        hi == Above(ZSampleIdx(c), mt.Z.freq, NewF[n])
    IN  /\ BetweenQ(Res.new_Z.z[n][c][1], mt.Z.z[lo][c][1], mt.Z.z[hi][c][1])
        /\ BetweenQ(Res.new_Z.z[n][c][2], mt.Z.z[lo][c][2], mt.Z.z[hi][c][2])
        /\ BetweenQ(Res.new_Z.z_err[n][c], mt.Z.z_err[lo][c], mt.Z.z_err[hi][c])

TBracketed(n, j) ==
    LET lo == Below(TSampleIdx(j), mt.Tipper.freq, NewF[n])
        hi == Above(TSampleIdx(j), mt.Tipper.freq, NewF[n])
    IN  /\ BetweenQ(Res.new_Tipper.tipper[n][j][1],
                    mt.Tipper.tipper[lo][j][1], mt.Tipper.tipper[hi][j][1])
        /\ BetweenQ(Res.new_Tipper.tipper[n][j][2],
                    mt.Tipper.tipper[lo][j][2], mt.Tipper.tipper[hi][j][2])
        /\ BetweenQ(Res.new_Tipper.tipper_err[n][j],
                    mt.Tipper.tipper_err[lo][j], mt.Tipper.tipper_err[hi][j])

\* C28: in the arrays a call of interpolate returns, with bounds_error true
\* or false, a component of Z or of the Tipper is different from zero at a
\* new frequency only if that frequency lies within the least and the
\* greatest frequency at which the component itself holds data, and there
\* its real part, its imaginary part and its error lie between those of the
\* two samples of the component that bracket the frequency.
C28_NoExtrapolation ==
    (IsInterpolate /\ Res.raised = None) =>
        \A n \in DOMAIN NewF :
            /\ \A c \in ZComps :
                  ~ ZIsZeroAt(n, c) =>
                      Within(NewF[n], ZSampleFreqs(c)) /\ ZBracketed(n, c)
            /\ \A j \in TComps :
                  ~ TIsZeroAt(n, j) =>
                      Within(NewF[n], TSampleFreqs(j)) /\ TBracketed(n, j)

\* with bounds_error false, a Z component that holds no data at 100 was
\* interpolated onto 100, between its samples at 1000 and 10, and onto 10000,
\* above them: the first is written, the second is zero
C28_Witness ==
    /\ IsInterpolate
    /\ ~ last.bounds_error
    /\ Res.raised = None
    /\ ZSampleFreqs(<<0, 0>>) = {1000, 10}
    /\ NewF = <<100, 10000>>
    /\ ~ ZIsZeroAt(1, <<0, 0>>)
    /\ Res.new_Z.z[1][<<0, 0>>][1] # ToQ(mt.Z.z[1][<<0, 0>>][1])
    /\ ZIsZeroAt(2, <<0, 0>>)
    /\ \A j \in TComps : ~ TIsZeroAt(1, j) /\ TIsZeroAt(2, j)

\* ------------------------------------ claims: location, the other cases

\* east, north and utm_zone of a Station
Utm(self) == <<self.east, self.north, self.utm_zone>>

\* C29: an assignment to latitude while the longitude has no value, or to
\* longitude while the latitude has no value, leaves east, north and
\* utm_zone as they were; they are overwritten only when both are there.
C29_UtmKeptWithoutBoth ==
    [][ ( \/ last'.op = "latitude" /\ loc'.longitude = <<>>
          \/ last'.op = "longitude" /\ loc'.latitude = <<>> ) =>
            Utm(loc') = Utm(loc) ]_vars

\* latitude, longitude, east, north and utm_zone as the accessors return them
Accessors(self) ==
    <<self.latitude, self.longitude, self.east, self.north, self.utm_zone>>

\* C30: an assignment to latitude, longitude, east, north or utm_zone that
\* raises leaves latitude, longitude, east, north and utm_zone all as they
\* were before it.
C30_FailedAssignmentChangesNothing ==
    [][ (IsLocationAssignment' /\ last'.raised # None) =>
            Accessors(loc') = Accessors(loc) ]_vars

\* ------------------------------------------------ claims: the profile

IsGenerateProfile == last.op = "generate_profile"

\* the place in edilist of the k-th station after generate_profile
FilePlace(k) ==
    CHOOSE i \in DOMAIN last.edilist : StationNames[i] = last.data.stations[k]

\* the easting of the k-th station projected onto the profile
ProjectedEast(k) ==
    PositionEast(last.edilist[FilePlace(k)].east, last.edilist[FilePlace(k)].north,
                 last.data.profile)

\* C27: after generate_profile the stations are in the order West to East
\* along the profile, North to South when the azimuth is 0; the
\* stationlocations do not decrease and the least of them is 0; and
\* stations, station_coords, station_frequencies and Z are in that one order.
C27_ProfileOrder ==
    IsGenerateProfile =>
        LET data == last.data
            n == Len(data.stations)
        IN  /\ \A k \in 1..(n - 1) :
                  /\ IF data.profile[1] = QZero
                     THEN data.norths[k] >= data.norths[k + 1]
                     ELSE QLe(ProjectedEast(k), ProjectedEast(k + 1))
                  /\ QLe(data.stationlocations[k], data.stationlocations[k + 1])
            /\ \E k \in 1..n : data.stationlocations[k] = QZero
            /\ \A k \in 1..n : QLe(QZero, data.stationlocations[k])
            /\ \A k \in 1..n :
                  /\ data.station_coords[k] = <<"coords", data.stations[k]>>
                  /\ data.station_frequencies[k] = <<"freq", data.stations[k]>>
                  /\ data.Z[k] = <<"Z", data.stations[k]>>

====
